---- MODULE Spec2Model ----
(***************************************************************************)
(* A model of the gxchain2 full node core: the full synchronizer           *)
(* (packages/gxchain-core/src/sync/fullsync.ts, packages/core/src/sync/    *)
(* sync.ts), the block funnel of the node (packages/gxchain-core/src/      *)
(* node.ts), the miner (miner.ts), the worker (packages/gxchain-core/      *)
(* src/miner/worker.ts), the network manager and the transaction journal.  *)
(*                                                                         *)
(* The node runs on one JavaScript event loop: the code between two awaits *)
(* is one atomic step, and every await of a real asynchronous operation is *)
(* a point where another task may run.  Each action below is one such      *)
(* step.                                                                   *)
(*                                                                         *)
(* The specifications that share the module:                               *)
(*   Spec           one FullSynchronizer.sync attempt, with the download   *)
(*                  tasks, the consumer, abort() and re-entrant sync       *)
(*                  calls;                                                 *)
(*   SettleSpec     the same with a downloadQueue.reset() that may reject; *)
(*   NodeSpec       the same with Miner.mineBlock running beside it;       *)
(*   PartitionSpec  the task partition loop of FullSynchronizer.sync on    *)
(*                  drawn inputs;                                          *)
(*   WorkerSpec     Worker._newBlock / addTxs / commit called from the     *)
(*                  node's newBlockLoop and addPendingTxsLoop;             *)
(*   PendingSpec    the same with callers of Worker.getPendingBlock;       *)
(*   NetSpec        NetworkManager: ban, isBanned, install, the dial loop  *)
(*                  and the connection events;                             *)
(*   JournalSpec    Jonunal.insert and Jonunal.load                        *)
(*                  (packages/gxchain-tx-pool/src/jonunal.ts);             *)
(*   RotateSpec     Jonunal.insert beside one Jonunal.rotate;              *)
(*   LoopSpec       Node.newBlock / addPendingTxs and the two consumer     *)
(*                  loops at the grain of their awaits;                    *)
(*   CommitSpec     one call of Worker.commit on pending maps of several   *)
(*                  transactions, the other callers reverting under it;    *)
(*   CommitFairSpec the same, the caller resumed after every await;        *)
(*   BgSpec         the background loops at the grain of their iterations, *)
(*                  with the two abort signals;                            *)
(*   BgFairSpec     the same, the timers of the loops firing.              *)
(***************************************************************************)
EXTENDS Integers, Sequences, FiniteSets, TLC

(***************************************************************************)
(* Bounds of the model.                                                    *)
(***************************************************************************)
MaxLocal == 1
MaxPeerHeight == 2
MaxCount == 2
Limit == 2
MaxMined == 1
MaxRejected == 1

Peers == {"p1", "p2"}
PeerOrder == <<"p1", "p2">>

Min(a, b) == IF a < b THEN a ELSE b

VARIABLES
  \* ---- FullSynchronizer / Synchronizer
  isSyncing,      \* FullSynchronizer.isSyncing
  syncPc,         \* position of the sync() call: idle, reset, running, returned, notified
  count,          \* FullSynchronizer.count
  latestHeight,   \* local of sync(): latestHeight, read at line 126
  bestHeight,     \* local of sync(): bestHeight
  beforeHead,     \* Synchronizer.sync: beforeSync
  prodPc,         \* first promise of Promise.all: none, start, done
  prodResult,     \* its result
  consPc,         \* second promise: none, pending, apply, done
  consResult,     \* its result
  consBatch,      \* task index of the batch in processBlocks (0: none)
  consLeft,       \* blocks of that batch still to process
  syncRet,        \* value sync() returned
  retHeight,      \* blockchain.latestHeight read by the return statement
  afterHead,      \* Synchronizer.sync: afterSync
  event,          \* what Synchronizer.sync emitted: none, synchronized, failed
  \* ---- OrderedQueue (downloadQueue) and the download tasks
  tasks,          \* the tasks inserted, in order
  tState,         \* per task: queued, lock, waitPeer, request, done, failed
  tPeer,          \* per task: the peer it acquired
  emitted,        \* number of results emitted in order
  dqAborted,      \* downloadQueue.abort() was called
  lockHeld,       \* FullSynchronizer.lock is taken
  \* ---- the two channels
  idleArr,        \* idlePeerQueue.array
  idleAborted,    \* idlePeerQueue aborted
  resultArr,      \* resultQueue.array (task indices)
  resultAborted,  \* resultQueue aborted
  \* ---- peers
  peerHeight,     \* peer.latestHeight(GXC2_ETHWIRE)
  peerIdle,       \* peer.idle
  installed,      \* peerpool.peers
  banned,         \* peer -> the error and the maxAge of the last peerpool.ban call
  \* ---- blockchain
  height,         \* blockchain.latestHeight
  head,           \* identity of blockchain.latestBlock (changes with every new head)
  \* ---- Miner
  working,        \* Loop.working of the miner
  mPc,            \* position of mineBlock: idle, sleep, jitter, processing
  mLast,          \* lastHeader captured by mineBlock (head identity)
  mNum,           \* number of the block being mined
  mined,          \* blocks the miner has put
  \* ---- history variables
  handed,         \* task indices passed to node.processBlocks, in order
  handedAtErr,    \* Len(handed) when processBlocks threw (-1: it did not)
  dlErr,          \* a download task threw
  prodErr,        \* the producer's try block threw
  consErr,        \* the consumer's try block threw
  abortCalled,    \* FullSynchronizer.abort() was called
  rejected,       \* sync() calls rejected with 'already sync'
  active          \* sync() calls past the isSyncing check that have not returned

syncVars == <<isSyncing, syncPc, count, latestHeight, bestHeight, beforeHead, prodPc, prodResult,
              consPc, consResult, consBatch, consLeft, syncRet, retHeight, afterHead, event>>
queueVars == <<tasks, tState, tPeer, emitted, dqAborted, lockHeld>>
chanVars == <<idleArr, idleAborted, resultArr, resultAborted>>
peerVars == <<peerHeight, peerIdle, installed, banned>>
chainVars == <<height, head>>
minerVars == <<working, mPc, mLast, mNum, mined>>
histVars == <<handed, handedAtErr, dlErr, prodErr, consErr, abortCalled, rejected, active>>

nodeVars == <<syncVars, queueVars, chanVars, peerVars, chainVars, minerVars, histVars>>

VARIABLES
  \* ---- the partition loop of FullSynchronizer.sync on its own
  pLatest,        \* latestHeight
  pBest,          \* bestHeight
  pCount,         \* this.count
  pTasks,         \* the tasks inserted into downloadQueue
  pPc             \* in: before the loop, out: after it

partVars == <<pLatest, pBest, pCount, pTasks, pPc>>

VARIABLES
  \* ---- Worker, with the chain, the pool and the node's two queues
  blocks,             \* the chain: blocks[k] is the account nonces after block k
  pool,               \* TxPool: the pending transactions of every sender
  newBlockQueue,      \* Node.newBlockQueue
  addPendingTxsQueue, \* Node.addPendingTxsQueue
  wvm,                \* Worker.wvm: the state and its checkpoint stack
  txs,                \* Worker.txs
  gasUsed,            \* Worker.gasUsed
  header,             \* Worker.header
  th,                 \* per caller of the worker: its position and locals
  submitted,          \* batches passed to Node.addPendingTxs
  ticks               \* calls of Worker.process by its loop

workerVars == <<blocks, pool, newBlockQueue, addPendingTxsQueue, wvm, txs, gasUsed, header,
                th, submitted, ticks>>

VARIABLES
  \* ---- Worker.getPendingBlock
  pend                \* the call: its position, arguments, copies of txs and header, result

pendVars == <<pend>>

VARIABLES
  \* ---- NetworkManager
  now,                \* Date.now()
  nBanned,            \* NetworkManager.banned: peer -> expiry (0: no entry)
  nConnected,         \* NetworkManager.connected
  nDialing,           \* NetworkManager.dialing
  nInstalling,        \* NetworkManager.installing
  nInstalled,         \* NetworkManager.installed
  linked,             \* peers the connection manager holds a connection to
  installs,           \* per peer: the install() call in progress and who made it
  dialLoop,           \* the dial loop: its position, peerId and lastPeerId
  promised,           \* per peer: the latest t + d over the ban(p, d) calls made at t
  lastQuery,          \* the last isBanned call: peer, result, time, entry left behind
  bans,               \* number of ban() calls
  \* ---- Jonunal
  jFile,              \* the bytes of transactions.rlp
  jLog,               \* the transactions given to insert(), in call order
  jPc,                \* "idle", "reading" (load's stream is open), "done", "thrown"
  jPos,               \* bytes of the file the read stream has delivered
  jBuf,               \* load: bufferInput
  jBatch,             \* load: batch
  jAdded,             \* the batches passed to the add callback, in call order
  jWriter,            \* Jonunal.writer: none, path (appends to the file), ending, stale
  jNew,               \* the bytes of transactions.rlp.new
  rot,                \* the rotate() call: position, map, failure, inserts made meanwhile
  \* ---- the two consumer loops of the Node
  qBlocks,            \* Node.newBlockQueue: the blocks waiting
  qCalls,             \* Node.addPendingTxsQueue: the addPendingTxs calls waiting
  nbLoop,             \* newBlockLoop: its position and the block of the iteration
  txLoop,             \* addPendingTxsLoop: its position, the call and results of the iteration
  calls,              \* per addPendingTxs call: txs.length and what became of its promise
  nbOpen,             \* the blocks whose handling has begun and has not ended
  txOpen,             \* the addPendingTxs calls whose handling has begun and has not ended
  nPushed,            \* number of Node.newBlock calls
  \* ---- the background loops
  isAborted,          \* Node.aborter.isAborted
  netStopped,         \* NetworkManager.abort() was called
  bg                  \* per loop: where it is, and whether its last iteration failed

netVars == <<now, nBanned, nConnected, nDialing, nInstalling, nInstalled, linked, installs,
             dialLoop, promised, lastQuery, bans>>

(* What the parts added to the node, partition and worker models hold. *)
journalVars == <<jFile, jLog, jPc, jPos, jBuf, jBatch, jAdded, jWriter, jNew, rot>>

loopVars == <<qBlocks, qCalls, nbLoop, txLoop, calls, nbOpen, txOpen, nPushed>>

bgVars == <<isAborted, netStopped, bg>>

extraVars == <<pendVars, netVars, journalVars, loopVars, bgVars>>

vars == <<nodeVars, partVars, workerVars, extraVars>>

(* What the steps of one part leave alone. *)
offSync == <<partVars, workerVars, extraVars>>
offPart == <<nodeVars, workerVars, extraVars>>
offWorker == <<nodeVars, partVars, extraVars>>
offPend == <<nodeVars, partVars, workerVars, netVars, journalVars, loopVars, bgVars>>
offNet == <<nodeVars, partVars, workerVars, pendVars, journalVars, loopVars, bgVars>>
offJournal == <<nodeVars, partVars, workerVars, pendVars, netVars, loopVars, bgVars>>
offLoop == <<nodeVars, partVars, workerVars, pendVars, netVars, journalVars, bgVars>>
offBg == <<nodeVars, partVars, workerVars, pendVars, netVars, journalVars, loopVars>>

(* The partition loop with the first height of a task taken as latest + k*count. *)
RECURSIVE ScheduleTasksFromLatest(_, _, _, _)
ScheduleTasksFromLatest(latest, totalCount, taskCount, cnt) ==
  IF totalCount > 0
  THEN <<[start |-> taskCount * cnt + latest,
          count |-> IF totalCount > cnt THEN cnt ELSE totalCount]>>
       \o ScheduleTasksFromLatest(latest, totalCount - cnt, taskCount + 1, cnt)
  ELSE <<>>

(***************************************************************************)
(* FullSynchronizer.sync, lines 138-146: the loop that partitions the      *)
(* heights latestHeight+1 .. bestHeight into tasks.  totalCount and        *)
(* taskCount are the loop's two locals.                                    *)
(***************************************************************************)
RECURSIVE ScheduleTasks(_, _, _, _)
ScheduleTasks(latest, totalCount, taskCount, cnt) ==
  IF totalCount > 0
  THEN <<[start |-> taskCount * cnt + latest + 1,
          count |-> IF totalCount > cnt THEN cnt ELSE totalCount]>>
       \o ScheduleTasks(latest, totalCount - cnt, taskCount + 1, cnt)
  ELSE <<>>

(* FullSynchronizer.sync, lines 126-135: the scan for the best peer. *)
RECURSIVE BestScan(_, _)
BestScan(i, best) ==
  IF i > Len(PeerOrder) THEN best
  ELSE LET p == PeerOrder[i]
       IN BestScan(i + 1, IF p \in installed /\ peerHeight[p] > best
                          THEN peerHeight[p] ELSE best)

(***************************************************************************)
(* OrderedQueue: at most Limit tasks execute at a time, taken in input     *)
(* order; results are emitted in index order, a result waiting for every   *)
(* lower index; a task whose processTask failed is queued again.           *)
(***************************************************************************)
Executing(ts) == {i \in DOMAIN ts : ts[i] \in {"lock", "waitPeer", "request"}}
Queued(ts) == {i \in DOMAIN ts : ts[i] = "queued"}
Settled(ts) == \A i \in DOMAIN ts : ts[i] \in {"done", "failed"}
LowestOf(S) == CHOOSE i \in S : \A j \in S : i <= j

RECURSIVE StartTasks(_, _)
StartTasks(ts, aborted) ==
  IF ~aborted /\ Cardinality(Executing(ts)) < Limit /\ Queued(ts) # {}
  THEN StartTasks([ts EXCEPT ![LowestOf(Queued(ts))] = "lock"], aborted)
  ELSE ts

RECURSIVE EmitUpTo(_, _)
EmitUpTo(ts, e) ==
  IF e < Len(ts) /\ ts[e + 1] = "done" THEN EmitUpTo(ts, e + 1) ELSE e

(***************************************************************************)
(* AsyncChannel.generator() on resultQueue as the consumer reads it: an    *)
(* aborted channel ends the sequence, a buffered item is taken, otherwise  *)
(* the read stays pending.                                                 *)
(***************************************************************************)
ChannelRead(arr, aborted) ==
  IF aborted THEN [pc |-> "done", batch |-> 0, arr |-> arr]
  ELSE IF arr # <<>> THEN [pc |-> "apply", batch |-> Head(arr), arr |-> Tail(arr)]
  ELSE [pc |-> "pending", batch |-> 0, arr |-> arr]

(* As PoolIdle, without the test of the peer's idle flag. *)
PoolIdleAny(idle, inst) ==
  LET any == {k \in DOMAIN PeerOrder : PeerOrder[k] \in inst}
  IN IF any = {} THEN "none" ELSE PeerOrder[CHOOSE k \in any : \A m \in any : k <= m]

(***************************************************************************)
(* FullSynchronizer.download, lines 73-81, run for every task that can     *)
(* take the lock, until none can: the queue starts the lowest queued tasks *)
(* while fewer than Limit execute; the first waiter of the lock takes it   *)
(* and reads idlePeerQueue.next().  An aborted channel cancels the read:   *)
(* line 78 emits the error, line 80 releases the lock, and the task goes   *)
(* on without a peer and throws at line 83 and again at line 103.          *)
(* Otherwise next() returns the head of idlePeerQueue.array, or the peer   *)
(* hasNext() finds idle in the pool; the task marks it busy and releases   *)
(* the lock.  With no idle peer the read stays pending and the task keeps  *)
(* the lock.  q holds the task states ts, their peers tp, the idle flags,  *)
(* the lock, the channel's array arr, whether a task threw (err) and the    *)
(* pool's peers inst.                                                      *)
(***************************************************************************)
PoolIdle(idle, inst) ==
  LET free == {k \in DOMAIN PeerOrder : PeerOrder[k] \in inst /\ idle[PeerOrder[k]]}
  IN IF free = {} THEN "none" ELSE PeerOrder[CHOOSE k \in free : \A m \in free : k <= m]

RECURSIVE Download(_, _, _)
Download(q, idleAb, dqAb) ==
  LET ts == StartTasks(q.ts, dqAb)
      want == {j \in DOMAIN ts : ts[j] = "lock"}
      j == CHOOSE x \in want : \A y \in want : x <= y
      polled == PoolIdle(q.idle, q.inst)
  IN IF q.lock \/ want = {} THEN [q EXCEPT !.ts = ts]
     ELSE IF idleAb
       THEN Download([q EXCEPT !.ts = [ts EXCEPT ![j] = "failed"], !.err = TRUE],
                     idleAb, dqAb)
     ELSE IF q.arr # <<>>
       THEN Download([q EXCEPT !.ts = [ts EXCEPT ![j] = "request"],
                               !.tp = [q.tp EXCEPT ![j] = Head(q.arr)],
                               !.idle = [q.idle EXCEPT ![Head(q.arr)] = FALSE],
                               !.arr = Tail(q.arr)], idleAb, dqAb)
     ELSE IF polled # "none"
       THEN Download([q EXCEPT !.ts = [ts EXCEPT ![j] = "request"],
                               !.tp = [q.tp EXCEPT ![j] = polled],
                               !.idle = [q.idle EXCEPT ![polled] = FALSE]], idleAb, dqAb)
     ELSE [q EXCEPT !.ts = [ts EXCEPT ![j] = "waitPeer"], !.lock = TRUE]

(* FullSynchronizer.constructor, lines 36-37: the defaults of the ban times. *)
timeoutBanTime == 300000
errorBanTime == 60000

NoBan == [err |-> "none", maxAge |-> 0]

(* Lines 104-108: the maxAge given to peerpool.ban for an error of this kind. *)
BanTime(kind) == IF kind = "timeout" THEN timeoutBanTime ELSE errorBanTime

(***************************************************************************)
(* The initial state: an idle synchronizer; any set of peers is installed,  *)
(* each advertising some height, all idle.                                 *)
(***************************************************************************)
SyncInit ==
  /\ isSyncing = FALSE /\ syncPc = "idle"
  /\ count \in 1..MaxCount
  /\ latestHeight = 0 /\ bestHeight = 0 /\ beforeHead = 0
  /\ prodPc = "none" /\ prodResult = FALSE
  /\ consPc = "none" /\ consResult = FALSE /\ consBatch = 0 /\ consLeft = 0
  /\ syncRet = FALSE /\ retHeight = 0 /\ afterHead = 0 /\ event = "none"
  /\ tasks = <<>> /\ tState = <<>> /\ tPeer = <<>> /\ emitted = 0
  /\ dqAborted = FALSE /\ lockHeld = FALSE
  /\ idleArr = <<>> /\ idleAborted = FALSE
  /\ resultArr = <<>> /\ resultAborted = FALSE
  /\ installed \in SUBSET Peers
  /\ peerHeight \in {h \in [Peers -> 0..MaxPeerHeight] :
                       \A p \in Peers : p \notin installed => h[p] = 0}
  /\ peerIdle = [p \in Peers |-> TRUE]
  /\ banned = [p \in Peers |-> NoBan]
  /\ height \in 0..MaxLocal
  /\ head = 0
  /\ working = TRUE /\ mPc = "idle" /\ mLast = 0 /\ mNum = 0
  /\ mined = 0
  /\ handed = <<>> /\ handedAtErr = -1
  /\ dlErr = FALSE /\ prodErr = FALSE /\ consErr = FALSE
  /\ abortCalled = FALSE /\ rejected = 0 /\ active = 0

(* A rejected call that clears idlePeerQueue (line 118) before it throws. *)
SyncAlreadySyncingClears ==
  /\ rejected' = rejected + 1
  /\ idleArr' = <<>>
  /\ UNCHANGED <<syncVars, queueVars, idleAborted, resultArr, resultAborted, peerVars,
                 chainVars, minerVars, handed, handedAtErr, dlErr, prodErr, consErr,
                 abortCalled, active>>
  /\ UNCHANGED offSync

(***************************************************************************)
(* FullSynchronizer.sync, lines 114-116: a call while isSyncing throws.    *)
(***************************************************************************)
SyncAlreadySyncing ==
  /\ rejected' = rejected + 1
  /\ UNCHANGED <<syncVars, queueVars, chanVars, peerVars, chainVars, minerVars,
                 handed, handedAtErr, dlErr, prodErr, consErr, abortCalled, active>>
  /\ UNCHANGED offSync

SyncReject ==
  /\ isSyncing
  /\ rejected < MaxRejected
  /\ SyncAlreadySyncing

(***************************************************************************)
(* Synchronizer.sync line 76 and FullSynchronizer.sync lines 114-119, up   *)
(* to the await of downloadQueue.reset().                                  *)
(***************************************************************************)
SyncStart ==
  /\ ~isSyncing
  /\ syncPc = "idle"
  /\ beforeHead' = head
  /\ isSyncing' = TRUE
  /\ idleArr' = <<>>
  /\ syncPc' = "reset"
  /\ active' = active + 1
  /\ UNCHANGED <<count, latestHeight, bestHeight, prodPc, prodResult, consPc, consResult, consBatch,
                 consLeft, syncRet, retHeight, afterHead, event>>
  /\ UNCHANGED <<queueVars, idleAborted, resultArr, resultAborted, peerVars, chainVars,
                 minerVars, handed, handedAtErr, dlErr, prodErr, consErr, abortCalled,
                 rejected>>
  /\ UNCHANGED offSync

(***************************************************************************)
(* FullSynchronizer.sync line 119: the awaited downloadQueue.reset()       *)
(* rejects.  The await is under no try: the call throws to its caller      *)
(* with line 117 done and line 171 never reached, and Synchronizer.sync    *)
(* logs the error (lines 89-91).                                           *)
(***************************************************************************)
SyncResetThrows ==
  /\ syncPc = "reset"
  /\ syncPc' = "thrown"
  /\ active' = active - 1
  /\ UNCHANGED <<isSyncing, count, latestHeight, bestHeight, beforeHead, prodPc, prodResult, consPc,
                 consResult, consBatch, consLeft, syncRet, retHeight, afterHead, event>>
  /\ UNCHANGED <<queueVars, chanVars, peerVars, chainVars, minerVars, handed, handedAtErr,
                 dlErr, prodErr, consErr, abortCalled, rejected>>
  /\ UNCHANGED offSync

(***************************************************************************)
(* FullSynchronizer.sync lines 121-163 up to the first await of each of    *)
(* the two promises: the producer finds the best height and either inserts *)
(* the tasks and starts the queue, or aborts resultQueue; the consumer     *)
(* starts to read resultQueue.                                             *)
(***************************************************************************)
SyncBegin ==
  /\ syncPc = "reset"
  /\ LET best == BestScan(1, height)
         newTasks == ScheduleTasks(height, best - height, 0, count)
         n == Len(newTasks)
         aborted == IF best > height THEN resultAborted ELSE TRUE
         rd == ChannelRead(resultArr, aborted)
         q == Download([ts |-> [i \in 1..n |-> "queued"],
                        tp |-> [i \in 1..n |-> "none"],
                        idle |-> peerIdle, lock |-> lockHeld, arr |-> idleArr,
                        err |-> dlErr, inst |-> installed], idleAborted, dqAborted)
     IN /\ latestHeight' = height
        /\ bestHeight' = best
        /\ tasks' = newTasks
        /\ tState' = q.ts
        /\ tPeer' = q.tp
        /\ peerIdle' = q.idle
        /\ lockHeld' = q.lock
        /\ idleArr' = q.arr
        /\ dlErr' = q.err
        /\ emitted' = 0
        /\ resultAborted' = aborted
        /\ prodPc' = IF best > height THEN "start" ELSE "done"
        /\ prodResult' = FALSE
        /\ consPc' = rd.pc
        /\ consResult' = (rd.pc = "done")
        /\ consBatch' = rd.batch
        /\ consLeft' = IF rd.batch = 0 THEN 0 ELSE newTasks[rd.batch].count
        /\ resultArr' = rd.arr
        /\ handed' = IF rd.batch = 0 THEN handed ELSE Append(handed, rd.batch)
  /\ syncPc' = "running"
  /\ UNCHANGED <<isSyncing, count, beforeHead, syncRet, retHeight, afterHead, event>>
  /\ UNCHANGED <<dqAborted, idleAborted, peerHeight, installed, banned, chainVars,
                 minerVars, handedAtErr, prodErr, consErr, abortCalled, rejected, active>>
  /\ UNCHANGED offSync

(* As ReleasePeer, without the assignment peer.idle = true. *)
ReleasePeerStaysBusy(i, st) ==
  LET p == tPeer[i]
      pushed == isSyncing /\ peerHeight[p] > 0
      waiters == {j \in DOMAIN tState : tState[j] = "waitPeer"}
      handoff == pushed /\ waiters # {}
      w == LowestOf(waiters)
  IN [ts |-> [j \in DOMAIN tState |->
                IF j = i THEN st
                ELSE IF handoff /\ j = w THEN "request" ELSE tState[j]],
      tp |-> IF handoff THEN [tPeer EXCEPT ![w] = p] ELSE tPeer,
      idle |-> peerIdle,
      lock |-> IF handoff THEN FALSE ELSE lockHeld,
      arr |-> IF pushed /\ ~handoff THEN Append(idleArr, p) ELSE idleArr,
      err |-> dlErr,
      inst |-> installed]

(***************************************************************************)
(* peer.idle = true (lines 100 and 103) and the 'idle' handler of lines    *)
(* 64-68: the peer is pushed to idlePeerQueue, which hands it to the task  *)
(* whose next() is pending, or else buffers it.  st is the state the       *)
(* releasing task i ends in.                                               *)
(***************************************************************************)
ReleasePeer(i, st) ==
  LET p == tPeer[i]
      pushed == isSyncing /\ peerHeight[p] > 0
      waiters == {j \in DOMAIN tState : tState[j] = "waitPeer"}
      handoff == pushed /\ waiters # {}
      w == LowestOf(waiters)
  IN [ts |-> [j \in DOMAIN tState |->
                IF j = i THEN st
                ELSE IF handoff /\ j = w THEN "request" ELSE tState[j]],
      tp |-> IF handoff THEN [tPeer EXCEPT ![w] = p] ELSE tPeer,
      idle |-> [peerIdle EXCEPT ![p] = ~handoff],
      lock |-> IF handoff THEN FALSE ELSE lockHeld,
      arr |-> IF pushed /\ ~handoff THEN Append(idleArr, p) ELSE idleArr,
      err |-> dlErr,
      inst |-> installed]

(***************************************************************************)
(* FullSynchronizer.download lines 83-101 return the blocks; the queue     *)
(* emits every result that is now in order ('result', lines 57-59, pushes  *)
(* it to resultQueue) and, after the last one, 'over' (lines 60-62), which *)
(* aborts resultQueue.  A result pushed while the consumer's read is       *)
(* pending resolves that read.                                             *)
(***************************************************************************)
TaskSuccess(i) ==
  /\ i \in DOMAIN tState
  /\ tState[i] = "request"
  /\ LET r == ReleasePeer(i, "done")
         e1 == IF dqAborted THEN emitted ELSE EmitUpTo(r.ts, emitted)
         res == [k \in 1..(e1 - emitted) |-> emitted + k]
         direct == res # <<>> /\ consPc = "pending"
         over == e1 > emitted /\ e1 = Len(tasks)
         q == Download(r, idleAborted, dqAborted)
     IN /\ tState' = q.ts
        /\ tPeer' = q.tp
        /\ peerIdle' = q.idle
        /\ lockHeld' = q.lock
        /\ idleArr' = q.arr
        /\ dlErr' = q.err
        /\ emitted' = e1
        /\ resultArr' = IF direct THEN resultArr \o Tail(res) ELSE resultArr \o res
        /\ resultAborted' = (resultAborted \/ over)
        /\ consPc' = IF direct THEN "apply" ELSE consPc
        /\ consBatch' = IF direct THEN Head(res) ELSE consBatch
        /\ consLeft' = IF direct THEN tasks[Head(res)].count ELSE consLeft
        /\ handed' = IF direct THEN Append(handed, Head(res)) ELSE handed
  /\ UNCHANGED <<isSyncing, syncPc, count, latestHeight, bestHeight, beforeHead, prodPc, prodResult,
                 consResult, syncRet, retHeight, afterHead, event>>
  /\ UNCHANGED <<tasks, dqAborted, idleAborted, peerHeight, installed, banned, chainVars,
                 minerVars, handedAtErr, prodErr, consErr, abortCalled, rejected, active>>
  /\ UNCHANGED offSync

(* As TaskFail, with errorBanTime for every error. *)
TaskFailErrorBanTime(i, kind) ==
  /\ i \in DOMAIN tState
  /\ tState[i] = "request"
  /\ installed' = installed \ {tPeer[i]}
  /\ banned' = [banned EXCEPT ![tPeer[i]] = [err |-> kind, maxAge |-> errorBanTime]]
  /\ LET r == ReleasePeer(i, IF dqAborted THEN "failed" ELSE "queued")
         q == Download([r EXCEPT !.err = TRUE, !.inst = installed \ {tPeer[i]}],
                       idleAborted, dqAborted)
     IN /\ tState' = q.ts
        /\ tPeer' = q.tp
        /\ peerIdle' = q.idle
        /\ lockHeld' = q.lock
        /\ idleArr' = q.arr
        /\ dlErr' = q.err
  /\ UNCHANGED <<syncVars, tasks, emitted, dqAborted, idleAborted, resultArr, resultAborted,
                 peerHeight, chainVars, minerVars, handed, handedAtErr, prodErr, consErr,
                 abortCalled, rejected, active>>
  /\ UNCHANGED offSync

(***************************************************************************)
(* FullSynchronizer.download lines 102-110: the request failed; the peer   *)
(* is marked idle, banned (kind is "timeout" for PeerRequestTimeoutError   *)
(* and "error" otherwise; the pool drops a banned peer) and the error is   *)
(* thrown to the queue, which emits 'error' (line 56) and, unless it was   *)
(* aborted, runs the task again.                                           *)
(***************************************************************************)
TaskFail(i, kind) ==
  /\ i \in DOMAIN tState
  /\ tState[i] = "request"
  /\ installed' = installed \ {tPeer[i]}
  /\ banned' = [banned EXCEPT ![tPeer[i]] = [err |-> kind, maxAge |-> BanTime(kind)]]
  /\ LET r == ReleasePeer(i, IF dqAborted THEN "failed" ELSE "queued")
         q == Download([r EXCEPT !.err = TRUE, !.inst = installed \ {tPeer[i]}],
                       idleAborted, dqAborted)
     IN /\ tState' = q.ts
        /\ tPeer' = q.tp
        /\ peerIdle' = q.idle
        /\ lockHeld' = q.lock
        /\ idleArr' = q.arr
        /\ dlErr' = q.err
  /\ UNCHANGED <<syncVars, tasks, emitted, dqAborted, idleAborted, resultArr, resultAborted,
                 peerHeight, chainVars, minerVars, handed, handedAtErr, prodErr, consErr,
                 abortCalled, rejected, active>>
  /\ UNCHANGED offSync

(***************************************************************************)
(* Node.processBlock lines 261-264: blockchain.putBlock makes the block    *)
(* the latest block when it is higher than the current one.                *)
(***************************************************************************)
PutBlock(number) ==
  IF number > height
  THEN [height |-> number, head |-> head + 1]
  ELSE [height |-> height, head |-> head]

(***************************************************************************)
(* The consumer, FullSynchronizer.sync lines 161-163 with                  *)
(* Node.processBlocks: one processBlock of the batch finishes; after the   *)
(* last block of the batch the consumer reads resultQueue again.           *)
(***************************************************************************)
ConsumerApply ==
  /\ consPc = "apply"
  /\ LET t == tasks[consBatch]
         pb == PutBlock(t.start + (t.count - consLeft))
         rd == ChannelRead(resultArr, resultAborted)
     IN /\ height' = pb.height
        /\ head' = pb.head
        /\ IF consLeft > 1
           THEN /\ consLeft' = consLeft - 1
                /\ UNCHANGED <<consPc, consBatch, consResult, resultArr, handed>>
           ELSE /\ consPc' = rd.pc
                /\ consBatch' = rd.batch
                /\ consLeft' = IF rd.batch = 0 THEN 0 ELSE tasks[rd.batch].count
                /\ consResult' = (rd.pc = "done")
                /\ resultArr' = rd.arr
                /\ handed' = IF rd.batch = 0 THEN handed ELSE Append(handed, rd.batch)
  /\ UNCHANGED <<isSyncing, syncPc, count, latestHeight, bestHeight, beforeHead, prodPc, prodResult,
                 syncRet, retHeight, afterHead, event>>
  /\ UNCHANGED <<queueVars, idleArr, idleAborted, resultAborted, peerVars, minerVars,
                 handedAtErr, dlErr, prodErr, consErr, abortCalled, rejected, active>>
  /\ UNCHANGED offSync

(* A consumer that catches the throw of processBlocks inside its loop and reads on. *)
ConsumerThrowReadsOn ==
  /\ consPc = "apply"
  /\ LET rd == ChannelRead(resultArr, resultAborted)
     IN /\ consPc' = rd.pc
        /\ consBatch' = rd.batch
        /\ consLeft' = IF rd.batch = 0 THEN 0 ELSE tasks[rd.batch].count
        /\ consResult' = (rd.pc = "done")
        /\ resultArr' = rd.arr
        /\ handed' = IF rd.batch = 0 THEN handed ELSE Append(handed, rd.batch)
  /\ consErr' = TRUE
  /\ handedAtErr' = Len(handed)
  /\ UNCHANGED <<isSyncing, syncPc, count, latestHeight, bestHeight, beforeHead, prodPc, prodResult,
                 syncRet, retHeight, afterHead, event>>
  /\ UNCHANGED <<queueVars, idleArr, idleAborted, resultAborted, peerVars, chainVars, minerVars,
                 dlErr, prodErr, abortCalled, rejected, active>>
  /\ UNCHANGED offSync

(***************************************************************************)
(* node.processBlocks throws: lines 165-168 emit the error and resolve the *)
(* consumer's promise with result, which is still false.                   *)
(***************************************************************************)
ConsumerThrow ==
  /\ consPc = "apply"
  /\ consPc' = "done"
  /\ consResult' = FALSE
  /\ consBatch' = 0
  /\ consLeft' = 0
  /\ consErr' = TRUE
  /\ handedAtErr' = Len(handed)
  /\ UNCHANGED <<isSyncing, syncPc, count, latestHeight, bestHeight, beforeHead, prodPc, prodResult,
                 syncRet, retHeight, afterHead, event>>
  /\ UNCHANGED <<queueVars, chanVars, peerVars, chainVars, minerVars, handed, dlErr,
                 prodErr, abortCalled, rejected, active>>
  /\ UNCHANGED offSync

(***************************************************************************)
(* The producer, line 147: downloadQueue.start(taskCount) resolves once    *)
(* every task has settled or the queue was aborted; line 148 sets result.  *)
(***************************************************************************)
ProducerDone ==
  /\ prodPc = "start"
  /\ Settled(tState) \/ dqAborted
  /\ prodPc' = "done"
  /\ prodResult' = TRUE
  /\ UNCHANGED <<isSyncing, syncPc, count, latestHeight, bestHeight, beforeHead, consPc, consResult,
                 consBatch, consLeft, syncRet, retHeight, afterHead, event>>
  /\ UNCHANGED <<queueVars, chanVars, peerVars, chainVars, minerVars, histVars>>
  /\ UNCHANGED offSync

(* start() rejects after an abort: lines 152-156, result stays false. *)
ProducerThrow ==
  /\ prodPc = "start"
  /\ dqAborted
  /\ prodPc' = "done"
  /\ prodResult' = FALSE
  /\ prodErr' = TRUE
  /\ UNCHANGED <<isSyncing, syncPc, count, latestHeight, bestHeight, beforeHead, consPc, consResult,
                 consBatch, consLeft, syncRet, retHeight, afterHead, event>>
  /\ UNCHANGED <<queueVars, chanVars, peerVars, chainVars, minerVars, handed, handedAtErr,
                 dlErr, consErr, abortCalled, rejected, active>>
  /\ UNCHANGED offSync

(* FullSynchronizer.sync line 174: the value sync() returns. *)
SyncResult(producer, consumer, best, latest) ==
  producer /\ consumer /\ best = latest

(***************************************************************************)
(* FullSynchronizer.sync lines 171-174: Promise.all has resolved, and      *)
(* Synchronizer.sync line 78 reads the head as the call returns.           *)
(***************************************************************************)
SyncReturn ==
  /\ syncPc = "running"
  /\ prodPc = "done"
  /\ consPc = "done"
  /\ isSyncing' = FALSE
  /\ syncRet' = SyncResult(prodResult, consResult, bestHeight, height)
  /\ retHeight' = height
  /\ afterHead' = head
  /\ syncPc' = "returned"
  /\ active' = active - 1
  /\ UNCHANGED <<count, latestHeight, bestHeight, beforeHead, prodPc, prodResult, consPc, consResult,
                 consBatch, consLeft, event>>
  /\ UNCHANGED <<queueVars, chanVars, peerVars, chainVars, minerVars, handed, handedAtErr,
                 dlErr, prodErr, consErr, abortCalled, rejected>>
  /\ UNCHANGED offSync

(***************************************************************************)
(* Synchronizer.sync lines 79-87: an event is emitted only when the head   *)
(* changed during the sync.  The miner's handlers (miner.ts lines 32-43)   *)
(* listen to 'start synchronize', 'synchronized' and 'synchronize failed'; *)
(* of the events emitted here only 'synchronized' reaches one of them, and *)
(* it starts the loop.                                                     *)
(***************************************************************************)
SyncEvent(before, after, result) ==
  IF before # after
  THEN IF result THEN "synchronized" ELSE "failed"
  ELSE "none"

SyncNotify ==
  /\ syncPc = "returned"
  /\ event' = SyncEvent(beforeHead, afterHead, syncRet)
  /\ working' = IF event' = "synchronized" THEN TRUE ELSE working
  /\ syncPc' = "notified"
  /\ UNCHANGED <<isSyncing, count, latestHeight, bestHeight, beforeHead, prodPc, prodResult, consPc,
                 consResult, consBatch, consLeft, syncRet, retHeight, afterHead>>
  /\ UNCHANGED <<queueVars, chanVars, peerVars, chainVars, mPc, mLast, mNum, mined,
                 histVars>>
  /\ UNCHANGED offSync

(***************************************************************************)
(* FullSynchronizer.abort, lines 177-181: idlePeerQueue.abort() cancels    *)
(* the pending next() of the task that waits for a peer, and that of every *)
(* task that takes the lock after it; downloadQueue.abort() stops the      *)
(* queue.  Neither abortFlag nor resultQueue is touched.                   *)
(***************************************************************************)
Abort ==
  /\ syncPc = "running"
  /\ ~abortCalled
  /\ abortCalled' = TRUE
  /\ idleAborted' = TRUE
  /\ dqAborted' = TRUE
  /\ LET waiters == {j \in DOMAIN tState : tState[j] = "waitPeer"}
         q == Download([ts |-> [j \in DOMAIN tState |->
                                 IF j \in waiters THEN "failed" ELSE tState[j]],
                        tp |-> tPeer, idle |-> peerIdle,
                        lock |-> IF waiters # {} THEN FALSE ELSE lockHeld,
                        arr |-> idleArr, err |-> (dlErr \/ waiters # {}),
                        inst |-> installed], TRUE, TRUE)
     IN /\ tState' = q.ts
        /\ tPeer' = q.tp
        /\ peerIdle' = q.idle
        /\ lockHeld' = q.lock
        /\ idleArr' = q.arr
        /\ dlErr' = q.err
  /\ UNCHANGED <<syncVars, tasks, emitted, resultArr, resultAborted, peerHeight, installed,
                 banned, chainVars, minerVars, handed, handedAtErr, prodErr, consErr,
                 rejected, active>>
  /\ UNCHANGED offSync

(***************************************************************************)
(* Miner.mineBlock.  Lines 112-120: the head is captured, the pending      *)
(* block is built on it, and the miner sleeps for the rest of the period.  *)
(***************************************************************************)
MineStart ==
  /\ working
  /\ mPc = "idle"
  /\ mined < MaxMined
  /\ mLast' = head
  /\ mNum' = height + 1
  /\ mPc' = "sleep"
  /\ UNCHANGED <<syncVars, queueVars, chanVars, peerVars, chainVars, working, mined,
                 histVars>>
  /\ UNCHANGED offSync

(***************************************************************************)
(* Lines 122-148 after the period sleep.  inTurn tells whether the rebuilt *)
(* block's difficulty is in-turn (line 123): in turn, processBlock is      *)
(* called; not in turn, the miner goes on to the jitter sleep only when it *)
(* is still working, the head is the one it started from, and the rebuilt  *)
(* block's timestamp is later than the parent's (line 132).                *)
(***************************************************************************)
MineWake(inTurn, later) ==
  /\ mPc = "sleep"
  /\ mPc' = IF inTurn THEN "processing"
            ELSE IF working /\ mLast = head /\ later THEN "jitter" ELSE "idle"
  /\ UNCHANGED <<syncVars, queueVars, chanVars, peerVars, chainVars, working, mLast, mNum,
                 mined, histVars>>
  /\ UNCHANGED offSync

(* After the jitter sleep the block is submitted without looking at the head again. *)
MineJitterOverUnchecked ==
  /\ mPc = "jitter"
  /\ mPc' = "processing"
  /\ UNCHANGED <<syncVars, queueVars, chanVars, peerVars, chainVars, working, mLast, mNum,
                 mined, histVars>>
  /\ UNCHANGED offSync

(* Lines 137-148 after the jitter sleep. *)
MineJitterOver ==
  /\ mPc = "jitter"
  /\ mPc' = IF working /\ mLast = head THEN "processing" ELSE "idle"
  /\ UNCHANGED <<syncVars, queueVars, chanVars, peerVars, chainVars, working, mLast, mNum,
                 mined, histVars>>
  /\ UNCHANGED offSync

(* Lines 148-151: node.processBlock(block) finishes with putBlock. *)
MineProcessed ==
  /\ mPc = "processing"
  /\ LET pb == PutBlock(mNum)
     IN /\ height' = pb.height
        /\ head' = pb.head
  /\ mined' = mined + 1
  /\ mPc' = "idle"
  /\ UNCHANGED <<syncVars, queueVars, chanVars, peerVars, working, mLast, mNum,
                 histVars>>
  /\ UNCHANGED offSync

(***************************************************************************)
(* The partition loop on its own: latestHeight, bestHeight and count are   *)
(* drawn, and the branch of lines 136-146 inserts the tasks.               *)
(***************************************************************************)
MaxPartLatest == 10
MaxPartBest == 20
MaxPartCount == 5

PartInit ==
  /\ pLatest \in 0..MaxPartLatest
  /\ pBest \in 0..MaxPartBest
  /\ pCount \in 1..MaxPartCount
  /\ pTasks = <<>>
  /\ pPc = "in"

InsertTasks ==
  /\ pPc = "in"
  /\ pTasks' = IF pBest > pLatest
               THEN ScheduleTasks(pLatest, pBest - pLatest, 0, pCount)
               ELSE <<>>
  /\ pPc' = "out"
  /\ UNCHANGED <<pLatest, pBest, pCount>>
  /\ UNCHANGED offPart

(***************************************************************************)
(* The worker.  A transaction is its sender, its nonce and its kind: "ok"  *)
(* and "big" execute (with gas 1 and 2), "bad" makes runTx throw whatever  *)
(* the state.  A state of the state manager is the account nonces.         *)
(***************************************************************************)
MaxHeads == 1
MaxBatches == 1
MaxTicks == 1
GasLimit == 2

Senders == {"A", "B"}
SenderOrder == <<"A", "B">>
Kinds == {"ok", "big", "bad"}
Threads == {"newBlockLoop", "addPendingTxsLoop", "process"}
NoTx == [sender |-> "none", nonce |-> 0, kind |-> "none"]
EmptyMap == [s \in Senders |-> <<>>]
TxGas(tx) == IF tx.kind = "big" THEN 2 ELSE 1

(***************************************************************************)
(* The pending maps that commit is given: per sender at most MaxMapLen     *)
(* transactions of any kind, with the nonces that follow the account's.    *)
(***************************************************************************)
MaxMapLen == 2

RunOf(s, kinds) == [k \in DOMAIN kinds |-> [sender |-> s, nonce |-> k - 1, kind |-> kinds[k]]]
KindSeqs == UNION {[1..n -> Kinds] : n \in 0..MaxMapLen}
PendingMaps == {[s \in Senders |-> RunOf(s, f[s])] : f \in [Senders -> KindSeqs]}

(* A pop() that drops one transaction only, as shift() does. *)
PopHead(m) ==
  LET s == [k \in DOMAIN SenderOrder |-> m[SenderOrder[k]]]
      has == {k \in DOMAIN s : s[k] # <<>>}
  IN IF has = {} THEN m
     ELSE [m EXCEPT ![SenderOrder[CHOOSE k \in has : \A j \in has : k <= j]] = Tail(@)]

(***************************************************************************)
(* PendingTxMap: the transactions grouped by sender, ascending in nonce;   *)
(* SenderOrder lists the senders by descending priority.  peek() is the    *)
(* lowest-nonce transaction of the first sender that has one, shift()      *)
(* advances that sender, pop() drops that sender.                          *)
(***************************************************************************)
MapSender(m) ==
  LET has == {k \in DOMAIN SenderOrder : m[SenderOrder[k]] # <<>>}
  IN IF has = {} THEN "none" ELSE SenderOrder[CHOOSE k \in has : \A j \in has : k <= j]

Peek(m) == IF MapSender(m) = "none" THEN NoTx ELSE Head(m[MapSender(m)])
Shift(m) == IF MapSender(m) = "none" THEN m ELSE [m EXCEPT ![MapSender(m)] = Tail(@)]
Pop(m) == IF MapSender(m) = "none" THEN m ELSE [m EXCEPT ![MapSender(m)] = <<>>]

(***************************************************************************)
(* The state manager: checkpoint() saves the state, commit() forgets the   *)
(* last save, revert() returns to it.  runTx with skipNonce: false throws  *)
(* unless the nonce of the transaction is the account's; a runTx that      *)
(* throws leaves the state as it was.                                      *)
(***************************************************************************)
Checkpoint(vm) == [vm EXCEPT !.stack = Append(@, vm.state)]
Commit(vm) == [vm EXCEPT !.stack = SubSeq(@, 1, Len(@) - 1)]
Revert(vm) == [state |-> vm.stack[Len(vm.stack)],
               stack |-> SubSeq(vm.stack, 1, Len(vm.stack) - 1)]
IsCheckpoint(vm) == vm.stack # <<>>
RunTxThrows(vm, tx) == tx.kind = "bad" \/ tx.nonce # vm.state[tx.sender]
RunTxState(vm, tx) == [vm.state EXCEPT ![tx.sender] = @ + 1]
FreshVM(nonces) == [state |-> nonces, stack |-> <<>>]

(* TxPool.newBlock: the pool drops what the new head has made stale. *)
Revalidate(p, nonces) ==
  [s \in Senders |-> SelectSeq(p[s], LAMBDA tx : tx.nonce >= nonces[s])]

(* TxPool.addTxs: a transaction is ready when it continues its sender's pending run. *)
Ready(p, nonces, tx) ==
  tx.nonce = (IF p[tx.sender] = <<>> THEN nonces[tx.sender]
              ELSE p[tx.sender][Len(p[tx.sender])].nonce + 1)

(***************************************************************************)
(* A caller of the worker that is not in a call: pc is its position, block *)
(* the argument of newBlock, map the pending map of commit, tx and res the *)
(* locals tx and txRes (or the throw of runTx), pre the state that the     *)
(* checkpoint of line 171 saved for tx.                                    *)
(***************************************************************************)
NoState == [s \in Senders |-> 0]
IdleThread == [pc |-> "idle", block |-> 0, map |-> EmptyMap, tx |-> NoTx, res |-> "none",
               pre |-> NoState]

WorkerInit ==
  /\ blocks = <<[s \in Senders |-> 0]>>
  /\ pool = EmptyMap
  /\ newBlockQueue = <<>>
  /\ addPendingTxsQueue = <<>>
  /\ wvm = Checkpoint(FreshVM([s \in Senders |-> 0]))
  /\ txs = <<>>
  /\ gasUsed = 0
  /\ header = [number |-> 2, parent |-> 1]
  /\ th = [t \in Threads |-> IdleThread]
  /\ submitted = 0
  /\ ticks = 0

(* One caller moves to pc; Forget also drops the saved state. *)
Goto(t, pc) == [th EXCEPT ![t].pc = pc]
Forget(t, pc) == [th EXCEPT ![t].pc = pc, ![t].pre = NoState]

(***************************************************************************)
(* Node.newBlock, node.ts lines 312-315, called with a block that was put  *)
(* on the chain: the block holds the next transaction of sender s.         *)
(***************************************************************************)
NewHead(s) ==
  /\ Len(blocks) <= MaxHeads
  /\ newBlockQueue = <<>>
  /\ blocks' = Append(blocks, [blocks[Len(blocks)] EXCEPT ![s] = @ + 1])
  /\ newBlockQueue' = <<Len(blocks) + 1>>
  /\ UNCHANGED <<pool, addPendingTxsQueue, wvm, txs, gasUsed, header, th, submitted, ticks>>
  /\ UNCHANGED offWorker

(***************************************************************************)
(* Node.addPendingTxs, lines 317-322: a batch of one transaction of sender *)
(* s, with the nonce that follows what s has in the pool and in the queue. *)
(***************************************************************************)
Submit(s, kind) ==
  /\ submitted < MaxBatches
  /\ LET waiting == SelectSeq(addPendingTxsQueue, LAMBDA tx : tx.sender = s)
         nonce == blocks[Len(blocks)][s] + Len(pool[s]) + Len(waiting)
     IN addPendingTxsQueue' =
          Append(addPendingTxsQueue, [sender |-> s, nonce |-> nonce, kind |-> kind])
  /\ submitted' = submitted + 1
  /\ UNCHANGED <<blocks, pool, newBlockQueue, wvm, txs, gasUsed, header, th, ticks>>
  /\ UNCHANGED offWorker

(***************************************************************************)
(* Node.newBlockLoop, lines 275-283: the next block is taken from the      *)
(* queue, txPool.newBlock(block) runs, and worker.newBlock(block) is next. *)
(***************************************************************************)
TakeBlock ==
  /\ th["newBlockLoop"].pc = "idle"
  /\ newBlockQueue # <<>>
  /\ newBlockQueue' = Tail(newBlockQueue)
  /\ pool' = Revalidate(pool, blocks[Head(newBlockQueue)])
  /\ th' = [th EXCEPT !["newBlockLoop"].pc = "newBlock",
                      !["newBlockLoop"].block = Head(newBlockQueue)]
  /\ UNCHANGED <<blocks, addPendingTxsQueue, wvm, txs, gasUsed, header, submitted, ticks>>
  /\ UNCHANGED offWorker

(***************************************************************************)
(* Node.addPendingTxsLoop, lines 292-304: the next batch is taken,         *)
(* txPool.addTxs admits it, and worker.addTxs(readies) is next when the    *)
(* transaction is ready.                                                   *)
(***************************************************************************)
TakeTxs ==
  /\ th["addPendingTxsLoop"].pc = "idle"
  /\ addPendingTxsQueue # <<>>
  /\ LET tx == Head(addPendingTxsQueue)
         ready == Ready(pool, blocks[Len(blocks)], tx)
     IN /\ pool' = IF ready THEN [pool EXCEPT ![tx.sender] = Append(@, tx)] ELSE pool
        /\ th' = IF ready
                 THEN [th EXCEPT !["addPendingTxsLoop"].pc = "addTxs",
                                 !["addPendingTxsLoop"].map =
                                     [EmptyMap EXCEPT ![tx.sender] = <<tx>>]]
                 ELSE th
  /\ addPendingTxsQueue' = Tail(addPendingTxsQueue)
  /\ UNCHANGED <<blocks, newBlockQueue, wvm, txs, gasUsed, header, submitted, ticks>>
  /\ UNCHANGED offWorker

(* Worker.process, worker.ts lines 163-165: newBlock(latestBlock). *)
Process ==
  /\ th["process"].pc = "idle"
  /\ ticks < MaxTicks
  /\ ticks' = ticks + 1
  /\ th' = [th EXCEPT !["process"].pc = "newBlock", !["process"].block = Len(blocks)]
  /\ UNCHANGED <<blocks, pool, newBlockQueue, addPendingTxsQueue, wvm, txs, gasUsed, header,
                 submitted>>
  /\ UNCHANGED offWorker

(* Worker._newBlock, lines 91-95: an open checkpoint is reverted. *)
NewBlockRevert(t) ==
  /\ th[t].pc = "newBlock"
  /\ IsCheckpoint(wvm)
  /\ wvm' = Revert(wvm)
  /\ th' = Goto(t, "reset")
  /\ UNCHANGED <<blocks, pool, newBlockQueue, addPendingTxsQueue, txs, gasUsed, header,
                 submitted, ticks>>
  /\ UNCHANGED offWorker

(***************************************************************************)
(* Worker._newBlock, lines 96-100: txs and gasUsed are reset, the header   *)
(* is made on the block (number and parent are chain positions), and       *)
(* getWrappedVM is called.                                                 *)
(***************************************************************************)
NewBlockReset(t) ==
  /\ th[t].pc = "reset" \/ (th[t].pc = "newBlock" /\ ~IsCheckpoint(wvm))
  /\ txs' = <<>>
  /\ gasUsed' = 0
  /\ header' = [number |-> th[t].block + 1, parent |-> th[t].block]
  /\ th' = Goto(t, "getVM")
  /\ UNCHANGED <<blocks, pool, newBlockQueue, addPendingTxsQueue, wvm, submitted, ticks>>
  /\ UNCHANGED offWorker

(* Lines 100-101: the new vm on the block's state root replaces wvm and is checkpointed. *)
NewBlockVM(t) ==
  /\ th[t].pc = "getVM"
  /\ wvm' = Checkpoint(FreshVM(blocks[th[t].block]))
  /\ th' = Goto(t, "getMap")
  /\ UNCHANGED <<blocks, pool, newBlockQueue, addPendingTxsQueue, txs, gasUsed, header,
                 submitted, ticks>>
  /\ UNCHANGED offWorker

(***************************************************************************)
(* Worker.commit, lines 168-171 and 200: with the pending map m, peek();   *)
(* commit returns when there is no transaction, otherwise the state is     *)
(* checkpointed for the transaction.                                       *)
(***************************************************************************)
Iterate(t, m) ==
  IF Peek(m) = NoTx
  THEN /\ th' = [th EXCEPT ![t] = IdleThread]
       /\ wvm' = wvm
  ELSE /\ th' = [th EXCEPT ![t].pc = "runTx", ![t].map = m, ![t].tx = Peek(m),
                           ![t].res = "none", ![t].pre = wvm.state]
       /\ wvm' = Checkpoint(wvm)

(* Worker._newBlock line 102: commit(getPendingMap(...)). *)
NewBlockCommit(t) ==
  /\ th[t].pc = "getMap"
  /\ Iterate(t, pool)
  /\ UNCHANGED <<blocks, pool, newBlockQueue, addPendingTxsQueue, txs, gasUsed, header,
                 submitted, ticks>>
  /\ UNCHANGED offWorker

(* Worker.addTxs, lines 113-119: commit(pendingMap). *)
AddTxsCommit(t) ==
  /\ th[t].pc = "addTxs"
  /\ Iterate(t, th[t].map)
  /\ UNCHANGED <<blocks, pool, newBlockQueue, addPendingTxsQueue, txs, gasUsed, header,
                 submitted, ticks>>
  /\ UNCHANGED offWorker

(* Worker.commit, lines 175-180: runTx executes the transaction on wvm. *)
RunTx(t) ==
  /\ th[t].pc = "runTx"
  /\ IF RunTxThrows(wvm, th[t].tx)
     THEN /\ wvm' = wvm
          /\ th' = [th EXCEPT ![t].pc = "settle", ![t].res = "throw"]
     ELSE /\ wvm' = [wvm EXCEPT !.state = RunTxState(wvm, th[t].tx)]
          /\ th' = [th EXCEPT ![t].pc = "settle", ![t].res = "ok"]
  /\ UNCHANGED <<blocks, pool, newBlockQueue, addPendingTxsQueue, txs, gasUsed, header,
                 submitted, ticks>>
  /\ UNCHANGED offWorker

(***************************************************************************)
(* Worker.commit, lines 181-192: revert() after a throw or when the gas    *)
(* does not fit, commit() otherwise.  Without an open checkpoint the call  *)
(* throws: line 198 pops the map and line 200 goes on with the loop.       *)
(***************************************************************************)
Settle(t) ==
  /\ th[t].pc = "settle"
  /\ IF ~IsCheckpoint(wvm)
     THEN Iterate(t, Pop(th[t].map))
     ELSE IF th[t].res = "throw"
       THEN wvm' = Revert(wvm) /\ th' = Forget(t, "popFail")
     ELSE IF GasLimit < TxGas(th[t].tx) + gasUsed
       THEN wvm' = Revert(wvm) /\ th' = Forget(t, "popGas")
     ELSE wvm' = Commit(wvm) /\ th' = Forget(t, "push")
  /\ UNCHANGED <<blocks, pool, newBlockQueue, addPendingTxsQueue, txs, gasUsed, header,
                 submitted, ticks>>
  /\ UNCHANGED offWorker

(* After the revert the loop goes on without a pop(). *)
DroppedKeeps(t) ==
  /\ th[t].pc \in {"popFail", "popGas"}
  /\ Iterate(t, th[t].map)
  /\ UNCHANGED <<blocks, pool, newBlockQueue, addPendingTxsQueue, txs, gasUsed, header,
                 submitted, ticks>>
  /\ UNCHANGED offWorker

(* Lines 183-185 and 190: pop() after the revert, then the next transaction. *)
Dropped(t) ==
  /\ th[t].pc \in {"popFail", "popGas"}
  /\ Iterate(t, Pop(th[t].map))
  /\ UNCHANGED <<blocks, pool, newBlockQueue, addPendingTxsQueue, txs, gasUsed, header,
                 submitted, ticks>>
  /\ UNCHANGED offWorker

(* Lines 193-195: the transaction is included, then the next transaction. *)
Included(t) ==
  /\ th[t].pc = "push"
  /\ txs' = Append(txs, th[t].tx)
  /\ gasUsed' = gasUsed + TxGas(th[t].tx)
  /\ Iterate(t, Shift(th[t].map))
  /\ UNCHANGED <<blocks, pool, newBlockQueue, addPendingTxsQueue, header, submitted, ticks>>
  /\ UNCHANGED offWorker

(***************************************************************************)
(* calculateTransactionTrie (tx package): the trie that holds transaction  *)
(* i under the key rlp(i); its root stands for the content of the trie.    *)
(***************************************************************************)
emptyTxTrie == {}

CalculateTransactionTrie(transactions) ==
  IF Len(transactions) = 0
  THEN emptyTxTrie
  ELSE {<<i - 1, transactions[i]>> : i \in 1..Len(transactions)}

(* Worker.makeHeader, lines 52-87: the header of block number on parentHash. *)
MakeHeader(parentHash, number) == [number |-> number, parent |-> parentHash]

NoBlock == [number |-> 0, parent |-> 0, transactions |-> <<>>, transactionsTrie |-> emptyTxTrie]
NoCall == [pc |-> "idle", given |-> FALSE, number |-> 0, hash |-> 0, matched |-> FALSE,
           txs |-> <<>>, header |-> MakeHeader(0, 0), result |-> NoBlock]

PendInit == pend = NoCall

(***************************************************************************)
(* Worker.getPendingBlock, lines 130-144, up to the first await: called    *)
(* with the number and hash of block b (given) or without arguments.  On a *)
(* mismatch with the candidate's header the header of an empty block is    *)
(* made; otherwise txs and header are copied and the trie is computed.     *)
(***************************************************************************)
GetPendingBlock(given, b) ==
  /\ pend.pc \in {"idle", "done"}
  /\ IF given /\ (b + 1 # header.number \/ b # header.parent)
     THEN pend' = [pc |-> "makeHeader", given |-> given, number |-> b, hash |-> b,
                 matched |-> FALSE, txs |-> <<>>, header |-> MakeHeader(b, b + 1),
                 result |-> NoBlock]
     ELSE pend' = [pc |-> "trie", given |-> given, number |-> b, hash |-> b,
                 matched |-> TRUE, txs |-> txs, header |-> header, result |-> NoBlock]
  /\ UNCHANGED offPend

(* Block.fromBlockData of lines 131-136 and 140-152, with the trie of its transactions. *)
BuildBlock(hdr, transactions) ==
  [number |-> hdr.number, parent |-> hdr.parent, transactions |-> transactions,
   transactionsTrie |-> CalculateTransactionTrie(transactions)]

(* A block built from the worker's txs and header as they are when the trie is done. *)
PendingBlockReturnLive ==
  /\ pend.pc \in {"makeHeader", "trie"}
  /\ pend' = [pend EXCEPT !.pc = "done",
                      !.result = IF pend.pc = "trie" THEN BuildBlock(header, txs)
                                 ELSE BuildBlock(pend.header, <<>>)]
  /\ UNCHANGED offPend

(* Worker.getPendingBlock, lines 133-152: Block.fromBlockData after the await. *)
PendingBlockReturn ==
  /\ pend.pc \in {"makeHeader", "trie"}
  /\ pend' = [pend EXCEPT !.pc = "done", !.result = BuildBlock(pend.header, pend.txs)]
  /\ UNCHANGED offPend

(***************************************************************************)
(* NetworkManager.  Time is Date.now() on a coarse clock; a peer is its    *)
(* id.  maxPeers and maxDials are the options of lines 192 and 194.        *)
(***************************************************************************)
MaxTime == 2
MaxAge == 2
MaxBans == 2
maxPeers == 1
maxDials == 1

NetPeers == {"n1", "n2"}
NoInstall == [pc |-> "idle", via |-> "none"]

(* NetworkManager.isBanned, lines 232-239: the result, and the map it leaves. *)
IsBanned(b, p, t) == b[p] # 0 /\ b[p] > t
IsBannedLeaves(b, p, t) == IF IsBanned(b, p, t) THEN b ELSE [b EXCEPT ![p] = 0]

NetInit ==
  /\ now = 0
  /\ nBanned = [p \in NetPeers |-> 0]
  /\ nConnected = {} /\ nDialing = {} /\ nInstalling = {} /\ nInstalled = {}
  /\ linked = {}
  /\ installs = [p \in NetPeers |-> NoInstall]
  /\ dialLoop = [pc |-> "sleep", peer |-> "none", last |-> "none"]
  /\ promised = [p \in NetPeers |-> 0]
  /\ lastQuery = [peer |-> "none", result |-> FALSE, n |-> 0]
  /\ bans = 0

(* The clock advances. *)
NetTick ==
  /\ now < MaxTime
  /\ now' = now + 1
  /\ UNCHANGED <<nBanned, nConnected, nDialing, nInstalling, nInstalled, linked, installs,
                 dialLoop, promised, lastQuery, bans>>
  /\ UNCHANGED offNet

(***************************************************************************)
(* NetworkManager.ban, lines 227-230, with removePeer, lines 213-225: the  *)
(* expiry is set to now + maxAge; an installed peer is removed and, when   *)
(* still connected, goes back to connected.                                *)
(***************************************************************************)
Ban(p, maxAge) ==
  /\ bans < MaxBans
  /\ bans' = bans + 1
  /\ nBanned' = [nBanned EXCEPT ![p] = now + maxAge]
  /\ promised' = [promised EXCEPT ![p] = IF now + maxAge > @ THEN now + maxAge ELSE @]
  /\ nInstalled' = nInstalled \ {p}
  /\ nConnected' = IF p \in nInstalled /\ p \in linked THEN nConnected \cup {p}
                   ELSE nConnected
  /\ UNCHANGED <<now, nDialing, nInstalling, linked, installs, dialLoop, lastQuery>>
  /\ UNCHANGED offNet

(* A call of isBanned(p), lines 232-239. *)
QueryIsBanned(p) ==
  /\ lastQuery' = [peer |-> p, result |-> IsBanned(nBanned, p, now), n |-> 1 - lastQuery.n]
  /\ nBanned' = IsBannedLeaves(nBanned, p, now)
  /\ UNCHANGED <<now, nConnected, nDialing, nInstalling, nInstalled, linked, installs,
                 dialLoop, promised, bans>>
  /\ UNCHANGED offNet

(* The 'peer:connect' handler, lines 265-274. *)
PeerConnect(p) ==
  /\ p \notin linked
  /\ linked' = linked \cup {p}
  /\ nConnected' = nConnected \cup {p}
  /\ UNCHANGED <<now, nBanned, nDialing, nInstalling, nInstalled, installs, dialLoop,
                 promised, lastQuery, bans>>
  /\ UNCHANGED offNet

(* The 'peer:disconnect' handler, lines 275-282, with removePeer. *)
PeerDisconnect(p) ==
  /\ p \in linked
  /\ linked' = linked \ {p}
  /\ nDialing' = nDialing \ {p}
  /\ nInstalling' = nInstalling \ {p}
  /\ nConnected' = nConnected \ {p}
  /\ nInstalled' = nInstalled \ {p}
  /\ UNCHANGED <<now, nBanned, installs, dialLoop, promised, lastQuery, bans>>
  /\ UNCHANGED offNet

(***************************************************************************)
(* NetworkManager.install, lines 293-305, up to the await: the call is     *)
(* refused for a banned peer, for a peer that is being installed, and for  *)
(* a new peer when installed.size > maxPeers.                              *)
(***************************************************************************)
InstallStarts(p) ==
  /\ ~(IsBanned(nBanned, p, now) \/ p \in nInstalling)
  /\ ~(p \notin nInstalled /\ Cardinality(nInstalled) > maxPeers)

(***************************************************************************)
(* The protocol handler of lines 257-260: an inbound stream of a connected *)
(* peer calls install(peerId, [protocol], [stream]).                       *)
(***************************************************************************)
Inbound(p) ==
  /\ p \in linked
  /\ installs[p].pc = "idle" \/ p \in nInstalling
  /\ nBanned' = IsBannedLeaves(nBanned, p, now)
  /\ IF InstallStarts(p)
     THEN /\ nInstalling' = nInstalling \cup {p}
          /\ installs' = [installs EXCEPT ![p] = [pc |-> "protocols", via |-> "inbound"]]
     ELSE UNCHANGED <<nInstalling, installs>>
  /\ UNCHANGED <<now, nConnected, nDialing, nInstalled, linked, dialLoop, promised,
                 lastQuery, bans>>
  /\ UNCHANGED offNet

(***************************************************************************)
(* NetworkManager.install, lines 306-319, after the await: ok tells        *)
(* whether a protocol was installed.  An install made by the dial loop     *)
(* goes on with lines 393-398.                                             *)
(***************************************************************************)
InstallEnd(p, ok) ==
  /\ installs[p].pc = "protocols"
  /\ LET done == p \in nInstalling /\ ok
     IN /\ nInstalling' = nInstalling \ {p}
        /\ nInstalled' = IF done THEN nInstalled \cup {p} ELSE nInstalled
        /\ IF installs[p].via = "dial"
           THEN /\ dialLoop' = [pc |-> "sleep", peer |-> "none", last |-> p]
                /\ nConnected' = IF ~done /\ p \in linked THEN nConnected \cup {p}
                                 ELSE nConnected
           ELSE UNCHANGED <<dialLoop, nConnected>>
  /\ installs' = [installs EXCEPT ![p] = NoInstall]
  /\ UNCHANGED <<now, nBanned, nDialing, linked, promised, lastQuery, bans>>
  /\ UNCHANGED offNet

(***************************************************************************)
(* NetworkManager.dialLoop, lines 369-389: the peers the loop may pick,    *)
(* and the banned map the isBanned calls of the filter leave.              *)
(***************************************************************************)
Fresh(id) == id \notin nDialing /\ id \notin nInstalling /\ id \notin nInstalled

Candidates ==
  IF nConnected # {} THEN nConnected
  ELSE {id \in NetPeers : Fresh(id) /\ ~IsBanned(nBanned, id, now) /\ id # dialLoop.last}

Filtered ==
  IF nConnected # {} THEN nBanned
  ELSE [id \in NetPeers |->
          IF Fresh(id) /\ ~IsBanned(nBanned, id, now) THEN 0 ELSE nBanned[id]]

(***************************************************************************)
(* NetworkManager.dialLoop with dial, lines 369-392 and 323-330: the loop  *)
(* picks p and dials it, unless dial refuses a banned or dialing peer.     *)
(***************************************************************************)
DialLoopWake(p) ==
  /\ dialLoop.pc = "sleep"
  /\ Cardinality(nInstalled) < maxPeers
  /\ Cardinality(nDialing) < maxDials
  /\ p \in Candidates
  /\ LET c1 == nConnected \ {p}
         refused == IsBanned(Filtered, p, now) \/ p \in nDialing
     IN /\ nBanned' = IsBannedLeaves(Filtered, p, now)
        /\ IF refused
           THEN /\ nConnected' = IF p \in linked THEN c1 \cup {p} ELSE c1
                /\ dialLoop' = [pc |-> "sleep", peer |-> "none", last |-> p]
                /\ UNCHANGED nDialing
           ELSE /\ nConnected' = c1
                /\ nDialing' = nDialing \cup {p}
                /\ dialLoop' = [dialLoop EXCEPT !.pc = "dialing", !.peer = p]
  /\ UNCHANGED <<now, nInstalling, nInstalled, linked, installs, promised, lastQuery, bans>>
  /\ UNCHANGED offNet

(* Lines 369-401 when the filter leaves no peer: only expired bans are dropped. *)
DialLoopIdle ==
  /\ dialLoop.pc = "sleep"
  /\ Cardinality(nInstalled) < maxPeers
  /\ Cardinality(nDialing) < maxDials
  /\ Candidates = {}
  /\ nBanned' = Filtered
  /\ UNCHANGED <<now, nConnected, nDialing, nInstalling, nInstalled, linked, installs,
                 dialLoop, promised, lastQuery, bans>>
  /\ UNCHANGED offNet

(* A dial that fails leaves the candidate out of the connected set. *)
DialEndLoses(ok) ==
  /\ dialLoop.pc = "dialing"
  /\ LET p == dialLoop.peer
         lk == IF ok THEN linked \cup {p} ELSE linked
         c0 == IF ok /\ p \notin linked THEN nConnected \cup {p} ELSE nConnected
         success == p \in nDialing /\ ok
         starts == success /\ InstallStarts(p)
     IN /\ installs[p].pc = "idle" \/ p \in nInstalling
        /\ nDialing' = nDialing \ {p}
        /\ linked' = lk
        /\ nBanned' = IF success THEN IsBannedLeaves(nBanned, p, now) ELSE nBanned
        /\ IF starts
           THEN /\ nInstalling' = nInstalling \cup {p}
                /\ installs' = [installs EXCEPT ![p] = [pc |-> "protocols", via |-> "dial"]]
                /\ dialLoop' = [dialLoop EXCEPT !.pc = "installing"]
                /\ nConnected' = c0
           ELSE /\ nConnected' = c0
                /\ dialLoop' = [pc |-> "sleep", peer |-> "none", last |-> p]
                /\ UNCHANGED <<nInstalling, installs>>
  /\ UNCHANGED <<now, nInstalled, promised, lastQuery, bans>>
  /\ UNCHANGED offNet

(***************************************************************************)
(* NetworkManager.dial, lines 330-340, after dialProtocol (ok: a stream    *)
(* was opened, which also connects the peer), and dialLoop lines 393-398   *)
(* with the start of install.                                              *)
(***************************************************************************)
DialEnd(ok) ==
  /\ dialLoop.pc = "dialing"
  /\ LET p == dialLoop.peer
         lk == IF ok THEN linked \cup {p} ELSE linked
         c0 == IF ok /\ p \notin linked THEN nConnected \cup {p} ELSE nConnected
         success == p \in nDialing /\ ok
         starts == success /\ InstallStarts(p)
     IN /\ installs[p].pc = "idle" \/ p \in nInstalling
        /\ nDialing' = nDialing \ {p}
        /\ linked' = lk
        /\ nBanned' = IF success THEN IsBannedLeaves(nBanned, p, now) ELSE nBanned
        /\ IF starts
           THEN /\ nInstalling' = nInstalling \cup {p}
                /\ installs' = [installs EXCEPT ![p] = [pc |-> "protocols", via |-> "dial"]]
                /\ dialLoop' = [dialLoop EXCEPT !.pc = "installing"]
                /\ nConnected' = c0
           ELSE /\ nConnected' = IF p \in lk THEN c0 \cup {p} ELSE c0
                /\ dialLoop' = [pc |-> "sleep", peer |-> "none", last |-> p]
                /\ UNCHANGED <<nInstalling, installs>>
  /\ UNCHANGED <<now, nInstalled, promised, lastQuery, bans>>
  /\ UNCHANGED offNet

(***************************************************************************)
(* The transaction journal (packages/gxchain-tx-pool/src/jonunal.ts).      *)
(* A transaction is kept as the bytes of its RLP serialisation, which may  *)
(* hold any byte values, the two of the separator included.  insert()      *)
(* appends the serialisation and the separator to the file; load() reads   *)
(* the file in chunks the stream cuts anywhere, splits the bytes at the    *)
(* separator and passes batches of parsed transactions to a callback.      *)
(***************************************************************************)
(* MaxJournal: insert() calls before the load; MaxChunk: bytes of one      *)
(* 'data' event; BatchLimit stands for the 1024 of line 62.                *)
MaxJournal == 3
MaxChunk == 3
BatchLimit == 2
MaxRotate == 2

bufferSplit == <<13, 10>>

(* The serialisations insert() is given: two without the separator's bytes *)
(* and one that holds them.                                                *)
JournalTxs == {<<1>>, <<2>>, <<3, 13, 10, 4>>}

(* Transaction.fromRlpSerializedTx on a slice: it decodes a whole          *)
(* serialisation and throws on anything else.                              *)
Parses(slice) == slice \in JournalTxs

(* Buffer.indexOf(bufferSplit), counted from 1; 0 stands for -1. *)
IndexOfSplit(buf) ==
  LET hits == {i \in 1..(Len(buf) - 1) : buf[i] = bufferSplit[1] /\ buf[i + 1] = bufferSplit[2]}
  IN IF hits = {} THEN 0 ELSE CHOOSE i \in hits : \A j \in hits : i <= j

(* The while loop of the 'data' handler, lines 55-67. *)
RECURSIVE Drain(_, _, _)
Drain(buf, batch, added) ==
  LET i == IndexOfSplit(buf)
  IN IF i = 0
     THEN [buf |-> buf, batch |-> batch, added |-> added, thrown |-> FALSE]
     ELSE LET slice == SubSeq(buf, 1, i - 1)
              pushed == Append(batch, slice)
              full == Len(pushed) > BatchLimit
          IN IF ~Parses(slice)
             THEN [buf |-> buf, batch |-> batch, added |-> added, thrown |-> TRUE]
             ELSE Drain(SubSeq(buf, i + Len(bufferSplit), Len(buf)),
                        IF full THEN <<>> ELSE pushed,
                        IF full THEN Append(added, pushed) ELSE added)

(* The serialisations and separators rotate() writes for a map, lines 110-125. *)
RECURSIVE Serialise(_)
Serialise(ts) ==
  IF ts = <<>> THEN <<>> ELSE Head(ts) \o bufferSplit \o Serialise(Tail(ts))

(* The maps rotate() is given, as the transactions in iteration order. *)
RotateMaps == UNION {[1..n -> JournalTxs] : n \in 0..MaxRotate}

NoRotate == [pc |-> "idle", all |-> <<>>, failed |-> FALSE, inserted |-> {}]

JournalInit ==
  /\ jWriter = "none"
  /\ jNew = <<>>
  /\ rot = NoRotate
  /\ jFile = <<>>
  /\ jLog = <<>>
  /\ jPc = "idle"
  /\ jPos = 0
  /\ jBuf = <<>>
  /\ jBatch = <<>>
  /\ jAdded = <<>>

(***************************************************************************)
(* Jonunal.insert, lines 87-98, with createWritter, lines 21-25: a writer  *)
(* is opened on the path in append mode only when there is none, and the   *)
(* write stream appends in call order.  A writer that is being ended       *)
(* takes no more writes; a writer opened before rotate() renamed the new   *)
(* file over the path still writes to the file that was replaced.          *)
(***************************************************************************)
JournalInsert(tx) ==
  /\ jPc = "idle"
  /\ Len(jLog) < MaxJournal
  /\ LET w == IF jWriter = "none" THEN "path" ELSE jWriter
     IN /\ jWriter' = w
        /\ jFile' = IF w = "path" THEN jFile \o tx \o bufferSplit ELSE jFile
  /\ jLog' = Append(jLog, tx)
  /\ rot' = IF rot.pc \in {"closing", "writing", "ending"}
            THEN [rot EXCEPT !.inserted = @ \cup {tx}]
            ELSE rot
  /\ UNCHANGED <<jPc, jPos, jBuf, jBatch, jAdded, jNew>>
  /\ UNCHANGED offJournal

(* Jonunal.load, lines 40-52: no file, or the read stream is opened. *)
JournalLoad ==
  /\ jPc = "idle"
  /\ jPc' = IF jLog = <<>> THEN "done" ELSE "reading"
  /\ jWriter' = IF jLog = <<>> THEN jWriter ELSE "none"
  /\ UNCHANGED <<jFile, jLog, jPos, jBuf, jBatch, jAdded, jNew, rot>>
  /\ UNCHANGED offJournal

(***************************************************************************)
(* The 'data' handler, lines 53-71, on a chunk of n bytes.  The batch left *)
(* by the loop is passed to add and stays in the variable for the next     *)
(* chunk.  A throw of the parser leaves the handler.                       *)
(***************************************************************************)
JournalData(n) ==
  /\ jPc = "reading"
  /\ jPos + n <= Len(jFile)
  /\ LET d == Drain(jBuf \o SubSeq(jFile, jPos + 1, jPos + n), jBatch, jAdded)
     IN /\ jPos' = jPos + n
        /\ jBuf' = d.buf
        /\ jBatch' = d.batch
        /\ jPc' = IF d.thrown THEN "thrown" ELSE jPc
        /\ jAdded' = IF ~d.thrown /\ d.batch # <<>> THEN Append(d.added, d.batch) ELSE d.added
  /\ UNCHANGED <<jFile, jLog, jWriter, jNew, rot>>
  /\ UNCHANGED offJournal

(* The 'end' handler, lines 73-75. *)
JournalEnd ==
  /\ jPc = "reading"
  /\ jPos = Len(jFile)
  /\ jPc' = "done"
  /\ UNCHANGED <<jFile, jLog, jPos, jBuf, jBatch, jAdded, jWriter, jNew, rot>>
  /\ UNCHANGED offJournal

(***************************************************************************)
(* Jonunal.rotate, lines 105-106: closeWritter() ends the append writer    *)
(* and awaits that (lines 27-31); without a writer the call goes on to     *)
(* lines 107-125: the new file is created empty and the writes of the      *)
(* map's transactions are queued.                                          *)
(***************************************************************************)
RotateStart(all) ==
  /\ rot.pc = "idle"
  /\ jPc = "idle"
  /\ IF jWriter = "none"
     THEN /\ rot' = [NoRotate EXCEPT !.pc = "writing", !.all = all]
          /\ jNew' = <<>>
          /\ UNCHANGED jWriter
     ELSE /\ rot' = [NoRotate EXCEPT !.pc = "closing", !.all = all]
          /\ jWriter' = "ending"
          /\ UNCHANGED jNew
  /\ UNCHANGED <<jFile, jLog, jPc, jPos, jBuf, jBatch, jAdded>>
  /\ UNCHANGED offJournal

(* Lines 32 and 107-125: the writer has ended and is forgotten; the new    *)
(* file is created empty and the writes are queued.                        *)
RotateClosed ==
  /\ rot.pc = "closing"
  /\ jWriter' = "none"
  /\ jNew' = <<>>
  /\ rot' = [rot EXCEPT !.pc = "writing"]
  /\ UNCHANGED <<jFile, jLog, jPc, jPos, jBuf, jBatch, jAdded>>
  /\ UNCHANGED offJournal

(***************************************************************************)
(* Lines 126-133: Promise.all settles.  The first n writes succeeded; with *)
(* n short of the map a write failed and the catch of line 128 is taken.   *)
(* Either way the finally awaits the end of the output stream.             *)
(***************************************************************************)
RotateWritten(n) ==
  /\ rot.pc = "writing"
  /\ n <= Len(rot.all)
  /\ jNew' = Serialise(SubSeq(rot.all, 1, n))
  /\ rot' = [rot EXCEPT !.pc = "ending", !.failed = n < Len(rot.all)]
  /\ UNCHANGED <<jFile, jLog, jPc, jPos, jBuf, jBatch, jAdded, jWriter>>
  /\ UNCHANGED offJournal

(* As RotateEnd, with the rename made after a failed write as well. *)
RotateEndAlwaysRenames ==
  /\ rot.pc = "ending"
  /\ rot' = [rot EXCEPT !.pc = "done"]
  /\ jFile' = jNew
  /\ jNew' = <<>>
  /\ jWriter' = IF jWriter = "path" THEN "stale" ELSE jWriter
  /\ UNCHANGED <<jLog, jPc, jPos, jBuf, jBatch, jAdded>>
  /\ UNCHANGED offJournal

(***************************************************************************)
(* Lines 129-136: the output stream has ended.  After a failed write the   *)
(* call has returned from the catch; otherwise renameSync puts the new     *)
(* file in the place of the journal.  A writer that insert() opened on the *)
(* path meanwhile stays open on the file that was replaced.                *)
(***************************************************************************)
RotateEnd ==
  /\ rot.pc = "ending"
  /\ rot' = [rot EXCEPT !.pc = "done"]
  /\ IF rot.failed
     THEN UNCHANGED <<jFile, jNew, jWriter>>
     ELSE /\ jFile' = jNew
          /\ jNew' = <<>>
          /\ jWriter' = IF jWriter = "path" THEN "stale" ELSE jWriter
  /\ UNCHANGED <<jLog, jPc, jPos, jBuf, jBatch, jAdded>>
  /\ UNCHANGED offJournal

(* The concatenation of a sequence of batches. *)
RECURSIVE Flatten(_)
Flatten(batches) ==
  IF batches = <<>> THEN <<>> ELSE Head(batches) \o Flatten(Tail(batches))

(***************************************************************************)
(* The two consumer loops of the Node (packages/gxchain-core/src/node.ts,  *)
(* lines 57-66 and 273-322) at the grain of their awaits.  The constructor *)
(* starts newBlockLoop and addPendingTxsLoop as two tasks, each reading    *)
(* its own channel.  TxPool.newBlock and TxPool.addTxs re-validate against *)
(* the state and write the journal, and so suspend part-way; the worker's  *)
(* calls are taken here as one await each.                                 *)
(***************************************************************************)
(* MaxBlocks: Node.newBlock calls; MaxCalls: Node.addPendingTxs calls;     *)
(* MaxTxs: txs.length of one call.                                         *)
MaxBlocks == 2
MaxCalls == 2
MaxTxs == 2

Blocks == 1..MaxBlocks
Calls == 1..MaxCalls

(* AsyncChannel.push with the max option: over capacity the oldest items   *)
(* are dropped; max 0 stands for no limit.                                 *)
ChannelPush(q, x, max) ==
  LET a == Append(q, x)
  IN IF max > 0 /\ Len(a) > max THEN SubSeq(a, Len(a) - max + 1, Len(a)) ELSE a

NoCallMade == [made |-> FALSE, len |-> 0, taken |-> FALSE, handled |-> FALSE, resolved |-> 0,
               result |-> <<>>, threw |-> FALSE]

LoopInit ==
  /\ qBlocks = <<>>
  /\ qCalls = <<>>
  /\ nbLoop = [pc |-> "wait", block |-> 0]
  /\ txLoop = [pc |-> "wait", call |-> 0, results |-> <<>>]
  /\ calls = [c \in Calls |-> NoCallMade]
  /\ nbOpen = {}
  /\ txOpen = {}
  /\ nPushed = 0

(* new Array<boolean>(n).fill(false), line 306. *)
AllFalse(n) == [i \in 1..n |-> FALSE]

(* The resolve function of the promise of line 319: the first call settles *)
(* the promise, every call is counted.                                     *)
Resolve(cs, c, r) ==
  [cs EXCEPT ![c].resolved = @ + 1,
             ![c].result = IF cs[c].resolved = 0 THEN r ELSE @,
             ![c].handled = TRUE]

(* The catch block of lines 305-308. *)
Caught(cs, c) == Resolve([cs EXCEPT ![c].threw = TRUE], c, AllFalse(cs[c].len))

(* Node.newBlock, lines 312-315; the channel is made with max: 1, line 57. *)
NodeNewBlock ==
  /\ nPushed < MaxBlocks
  /\ nPushed' = nPushed + 1
  /\ qBlocks' = ChannelPush(qBlocks, nPushed + 1, 1)
  /\ UNCHANGED <<qCalls, nbLoop, txLoop, calls, nbOpen, txOpen>>
  /\ UNCHANGED offLoop

(* Node.addPendingTxs, lines 317-322, with n transactions. *)
NodeAddPendingTxs(n) ==
  /\ \E c \in Calls :
       /\ ~calls[c].made
       /\ \A d \in Calls : d < c => calls[d].made
       /\ calls' = [calls EXCEPT ![c] = [NoCallMade EXCEPT !.made = TRUE, !.len = n]]
       /\ qCalls' = ChannelPush(qCalls, c, 0)
  /\ UNCHANGED <<qBlocks, nbLoop, txLoop, nbOpen, txOpen, nPushed>>
  /\ UNCHANGED offLoop

(* As NewBlockLoopTake, without the wait for the iteration before. *)
NewBlockLoopTakeEarly(announceThrows) ==
  /\ qBlocks # <<>>
  /\ LET b == Head(qBlocks)
     IN IF announceThrows
        THEN UNCHANGED <<nbLoop, nbOpen>>
        ELSE /\ nbOpen' = nbOpen \cup {b}
             /\ nbLoop' = [pc |-> "poolNewBlock", block |-> b]
  /\ qBlocks' = Tail(qBlocks)
  /\ UNCHANGED <<qCalls, txLoop, calls, txOpen, nPushed>>
  /\ UNCHANGED offLoop

(***************************************************************************)
(* newBlockLoop, lines 275-282: the for await takes the next block once    *)
(* the body of the iteration before has ended, peer.newBlock announces it  *)
(* (a throw goes to the catch of line 284) and txPool.newBlock is called.  *)
(***************************************************************************)
NewBlockLoopTake(announceThrows) ==
  /\ nbLoop.pc = "wait"
  /\ qBlocks # <<>>
  /\ LET b == Head(qBlocks)
     IN IF announceThrows
        THEN UNCHANGED <<nbLoop, nbOpen>>
        ELSE /\ nbOpen' = nbOpen \cup {b}
             /\ nbLoop' = [pc |-> "poolNewBlock", block |-> b]
  /\ qBlocks' = Tail(qBlocks)
  /\ UNCHANGED <<qCalls, txLoop, calls, txOpen, nPushed>>
  /\ UNCHANGED offLoop

(* Lines 282-286: txPool.newBlock has returned (ok) or thrown. *)
PoolNewBlockEnd(ok) ==
  /\ nbLoop.pc = "poolNewBlock"
  /\ IF ok
     THEN /\ nbLoop' = [nbLoop EXCEPT !.pc = "workerNewBlock"]
          /\ UNCHANGED nbOpen
     ELSE /\ nbLoop' = [pc |-> "wait", block |-> 0]
          /\ nbOpen' = nbOpen \ {nbLoop.block}
  /\ UNCHANGED <<qBlocks, qCalls, txLoop, calls, txOpen, nPushed>>
  /\ UNCHANGED offLoop

(* Lines 283-287: worker.newBlock has returned or thrown. *)
WorkerNewBlockEnd ==
  /\ nbLoop.pc = "workerNewBlock"
  /\ nbLoop' = [pc |-> "wait", block |-> 0]
  /\ nbOpen' = nbOpen \ {nbLoop.block}
  /\ UNCHANGED <<qBlocks, qCalls, txLoop, calls, txOpen, nPushed>>
  /\ UNCHANGED offLoop

(* addPendingTxsLoop, lines 292-294: the next call is taken and            *)
(* txPool.addTxs is called.                                                *)
AddPendingTxsLoopTake ==
  /\ txLoop.pc = "wait"
  /\ qCalls # <<>>
  /\ LET c == Head(qCalls)
     IN /\ txLoop' = [pc |-> "poolAddTxs", call |-> c, results |-> <<>>]
        /\ calls' = [calls EXCEPT ![c].taken = TRUE]
        /\ txOpen' = txOpen \cup {c}
  /\ qCalls' = Tail(qCalls)
  /\ UNCHANGED <<qBlocks, nbLoop, nbOpen, nPushed>>
  /\ UNCHANGED offLoop

(***************************************************************************)
(* Lines 294-304: txPool.addTxs has returned one boolean per transaction   *)
(* and the ready ones.  Without readies the call is resolved; with them    *)
(* the hashes are announced (announceTx may throw) and worker.addTxs is    *)
(* called.                                                                 *)
(***************************************************************************)
PoolAddTxsEnd(results, outcome) ==
  /\ txLoop.pc = "poolAddTxs"
  /\ LET c == txLoop.call
     IN /\ results \in [1..calls[c].len -> BOOLEAN]
        /\ outcome # "resolved" => \E i \in DOMAIN results : results[i]
        /\ IF outcome = "announced"
           THEN /\ txLoop' = [txLoop EXCEPT !.pc = "workerAddTxs", !.results = results]
                /\ UNCHANGED <<txOpen, calls>>
           ELSE /\ txLoop' = [pc |-> "wait", call |-> 0, results |-> <<>>]
                /\ txOpen' = txOpen \ {c}
                /\ calls' = IF outcome = "resolved" THEN Resolve(calls, c, results)
                            ELSE Caught(calls, c)
  /\ UNCHANGED <<qBlocks, qCalls, nbLoop, nbOpen, nPushed>>
  /\ UNCHANGED offLoop

(* As PoolAddTxsThrows, with a catch block that only logs. *)
PoolAddTxsThrowsLogged ==
  /\ txLoop.pc = "poolAddTxs"
  /\ txLoop' = [pc |-> "wait", call |-> 0, results |-> <<>>]
  /\ txOpen' = txOpen \ {txLoop.call}
  /\ calls' = [calls EXCEPT ![txLoop.call].threw = TRUE, ![txLoop.call].handled = TRUE]
  /\ UNCHANGED <<qBlocks, qCalls, nbLoop, nbOpen, nPushed>>
  /\ UNCHANGED offLoop

(* Lines 294 and 305-308: txPool.addTxs has thrown. *)
PoolAddTxsThrows ==
  /\ txLoop.pc = "poolAddTxs"
  /\ txLoop' = [pc |-> "wait", call |-> 0, results |-> <<>>]
  /\ txOpen' = txOpen \ {txLoop.call}
  /\ calls' = Caught(calls, txLoop.call)
  /\ UNCHANGED <<qBlocks, qCalls, nbLoop, nbOpen, nPushed>>
  /\ UNCHANGED offLoop

(* Lines 302-308: worker.addTxs has returned (ok) or thrown. *)
WorkerAddTxsEnd(ok) ==
  /\ txLoop.pc = "workerAddTxs"
  /\ txLoop' = [pc |-> "wait", call |-> 0, results |-> <<>>]
  /\ txOpen' = txOpen \ {txLoop.call}
  /\ calls' = IF ok THEN Resolve(calls, txLoop.call, txLoop.results)
              ELSE Caught(calls, txLoop.call)
  /\ UNCHANGED <<qBlocks, qCalls, nbLoop, nbOpen, nPushed>>
  /\ UNCHANGED offLoop

(***************************************************************************)
(* The background loops at the grain of their iterations: Synchronizer.    *)
(* syncLoop (packages/core/src/sync/sync.ts, lines 101-111), the two       *)
(* consumer loops of the Node (node.ts, lines 273-310), dialLoop and       *)
(* timeoutLoop of the NetworkManager (lines 364-428) and the Loop that     *)
(* calls Miner.process (miner.ts, lines 154-160).  Each loop is a task of  *)
(* its own.  A loop's `failed` tells whether the iteration that ended last *)
(* ended in the catch (kept for the four loops that sleep between          *)
(* iterations).  The abort signals are the Node's aborter and              *)
(* NetworkManager.abort.                                                   *)
(***************************************************************************)
BgLoops == {"syncLoop", "newBlockLoop", "addPendingTxsLoop", "dialLoop", "timeoutLoop", "miner"}
QueueLoops == {"newBlockLoop", "addPendingTxsLoop"}

At(l, pc, failed) == [bg EXCEPT ![l] = [pc |-> pc, failed |-> failed]]

(* After construction every loop awaits the initialisation it starts with; *)
(* the miner's Loop waits for its interval.                                *)
BgInit ==
  /\ isAborted = FALSE
  /\ netStopped = FALSE
  /\ bg = [l \in BgLoops |-> [pc |-> IF l = "miner" THEN "wait" ELSE "init", failed |-> FALSE]]

(* Aborter.abort() on the Node's aborter (node.ts line 56). *)
NodeAbort ==
  /\ ~isAborted
  /\ isAborted' = TRUE
  /\ UNCHANGED <<netStopped, bg>>
  /\ UNCHANGED offBg

(***************************************************************************)
(* NetworkManager.abort, lines 430-438: the installed peers are aborted,   *)
(* the four sets are cleared, libp2p is stopped and the manager's own      *)
(* listeners are removed.  Nothing here reaches dialLoop or timeoutLoop.   *)
(***************************************************************************)
NetAbort ==
  /\ ~netStopped
  /\ netStopped' = TRUE
  /\ nConnected' = {}
  /\ nDialing' = {}
  /\ nInstalling' = {}
  /\ nInstalled' = {}
  /\ UNCHANGED <<isAborted, bg>>
  /\ UNCHANGED <<now, nBanned, linked, installs, dialLoop, promised, lastQuery, bans>>
  /\ UNCHANGED <<nodeVars, partVars, workerVars, pendVars, journalVars, loopVars>>

(***************************************************************************)
(* syncLoop, lines 102-108: blockchain.init() or the abortable sleep has   *)
(* settled and the condition of the while is evaluated: aborted, the loop  *)
(* ends (line 110); otherwise sync() is called.                            *)
(***************************************************************************)
SyncLoopTurn ==
  /\ bg["syncLoop"].pc \in {"init", "sleep"}
  /\ bg' = At("syncLoop", IF isAborted THEN "exited" ELSE "sync", bg["syncLoop"].failed)
  /\ UNCHANGED <<isAborted, netStopped>>
  /\ UNCHANGED offBg

(* As SyncLoopSyncEnd, with the error of sync() reaching the loop. *)
SyncLoopSyncEndEscapes(throws) ==
  /\ bg["syncLoop"].pc = "sync"
  /\ bg' = At("syncLoop", IF throws THEN "exited" ELSE "sleep", throws)
  /\ UNCHANGED <<isAborted, netStopped>>
  /\ UNCHANGED offBg

(***************************************************************************)
(* Synchronizer.sync, lines 73-92, as syncLoop awaits it (line 107): what  *)
(* the body throws is caught and logged (lines 89-91), the call returns    *)
(* and the loop goes on to its sleep (line 108).                           *)
(***************************************************************************)
SyncLoopSyncEnd(throws) ==
  /\ bg["syncLoop"].pc = "sync"
  /\ bg' = At("syncLoop", "sleep", throws)
  /\ UNCHANGED <<isAborted, netStopped>>
  /\ UNCHANGED offBg

(***************************************************************************)
(* newBlockLoop line 275, addPendingTxsLoop line 292: the read of the      *)
(* channel's generator returns.  The channels are built with the isAbort   *)
(* of the Node's aborter (lines 57-58): aborted, the sequence ends and so  *)
(* does the loop; otherwise the body runs with the item read.              *)
(***************************************************************************)
QueueLoopTake(l) ==
  /\ bg[l].pc \in {"init", "read"}
  /\ bg' = At(l, IF isAborted THEN "exited" ELSE "body", bg[l].failed)
  /\ UNCHANGED <<isAborted, netStopped>>
  /\ UNCHANGED offBg

(* Lines 276-286 and 293-309: the body ends, in its try or in its catch,   *)
(* and the next read begins.                                               *)
QueueLoopEnd(l) ==
  /\ bg[l].pc = "body"
  /\ bg' = At(l, "read", bg[l].failed)
  /\ UNCHANGED <<isAborted, netStopped>>
  /\ UNCHANGED offBg

(***************************************************************************)
(* dialLoop, lines 365-395: initPromise or the sleep of line 402 has       *)
(* settled; with a candidate (from connected or from the peer store) the   *)
(* loop awaits dial(), without one it sleeps again.  The loop is a         *)
(* while (true): it looks at no abort signal.                              *)
(***************************************************************************)
DialLoopTurn(found) ==
  /\ bg["dialLoop"].pc \in {"init", "sleep"}
  /\ bg' = At("dialLoop", IF found THEN "dial" ELSE "sleep",
              IF bg["dialLoop"].pc = "sleep" THEN FALSE ELSE bg["dialLoop"].failed)
  /\ UNCHANGED <<isAborted, netStopped>>
  /\ UNCHANGED offBg

(* Lines 395-402: dial() catches its own errors (lines 329-335) and        *)
(* returns; on success install() is awaited, otherwise the loop sleeps.    *)
DialLoopDialEnd(success) ==
  /\ bg["dialLoop"].pc = "dial"
  /\ bg' = At("dialLoop", IF success THEN "install" ELSE "sleep", bg["dialLoop"].failed)
  /\ UNCHANGED <<isAborted, netStopped>>
  /\ UNCHANGED offBg

(***************************************************************************)
(* Lines 396-405: install() returns, or throws (peer.abort() of line 318   *)
(* rejects, isConnected throws).  The catch of line 403 is inside the      *)
(* while and holds no await: the next iteration begins in the same step,   *)
(* the sleep of line 402 is skipped.                                       *)
(***************************************************************************)
DialLoopInstallEnd(throws, found) ==
  /\ bg["dialLoop"].pc = "install"
  /\ bg' = At("dialLoop", IF throws /\ found THEN "dial" ELSE "sleep", throws)
  /\ UNCHANGED <<isAborted, netStopped>>
  /\ UNCHANGED offBg

(***************************************************************************)
(* timeoutLoop, lines 413-421: initPromise has settled and the loop sleeps *)
(* (line 415), or the sleep is over and the peers whose timestamp is stale *)
(* are removed (line 420), one await each.  The loop is a while (true).    *)
(***************************************************************************)
TimeoutLoopWake(stale) ==
  /\ bg["timeoutLoop"].pc \in {"init", "sleep"}
  /\ bg' = IF bg["timeoutLoop"].pc = "init"
           THEN At("timeoutLoop", "sleep", FALSE)
           ELSE At("timeoutLoop", IF stale THEN "remove" ELSE "sleep", FALSE)
  /\ UNCHANGED <<isAborted, netStopped>>
  /\ UNCHANGED offBg

(* Lines 420-426: removePeer returns or throws; the catch of line 423 is   *)
(* inside the while, and the next iteration begins with its sleep.         *)
TimeoutLoopRemoved(throws) ==
  /\ bg["timeoutLoop"].pc = "remove"
  /\ bg' = At("timeoutLoop", "sleep", throws)
  /\ UNCHANGED <<isAborted, netStopped>>
  /\ UNCHANGED offBg

(* The miner's Loop calls process() after its interval (miner.ts line 154). *)
LoopProcess ==
  /\ bg["miner"].pc = "wait"
  /\ bg' = At("miner", "mine", bg["miner"].failed)
  /\ UNCHANGED <<isAborted, netStopped>>
  /\ UNCHANGED offBg

(* Miner.process, lines 155-159: mineBlock returns, or throws into the     *)
(* catch of line 157; process() returns either way.                        *)
MinerProcessEnd(throws) ==
  /\ bg["miner"].pc = "mine"
  /\ bg' = At("miner", "wait", throws)
  /\ UNCHANGED <<isAborted, netStopped>>
  /\ UNCHANGED offBg

(***************************************************************************)
(* The steps of a running sync itself: what remains enabled of them tells  *)
(* whether the sync can still go on.                                       *)
(***************************************************************************)
SyncProgress ==
  \/ SyncBegin
  \/ \E i \in DOMAIN tState : TaskSuccess(i)
  \/ \E i \in DOMAIN tState : \E kind \in {"timeout", "error"} : TaskFail(i, kind)
  \/ ConsumerApply
  \/ ConsumerThrow
  \/ ProducerDone
  \/ ProducerThrow
  \/ SyncReturn

(* The parts a specification leaves out stay as they start. *)
PartOff == PartInit /\ pLatest = 0 /\ pBest = 0 /\ pCount = 1
WorkerOff == WorkerInit
SyncOff == SyncInit /\ count = 1 /\ height = 0 /\ installed = {}
ExtraOff == PendInit /\ NetInit /\ JournalInit /\ LoopInit /\ BgInit

(* One sync attempt, with abort() and re-entrant sync() calls. *)
Init == SyncInit /\ PartOff /\ WorkerOff /\ ExtraOff

Next ==
  \/ SyncStart
  \/ SyncReject
  \/ SyncBegin
  \/ \E i \in DOMAIN tState : TaskSuccess(i)
  \/ \E i \in DOMAIN tState : \E kind \in {"timeout", "error"} : TaskFail(i, kind)
  \/ ConsumerApply
  \/ ConsumerThrow
  \/ ProducerDone
  \/ ProducerThrow
  \/ SyncReturn
  \/ SyncNotify
  \/ Abort

Spec == Init /\ [][Next]_vars

(* The same with a downloadQueue.reset() that may reject. *)
SettleNext == Next \/ SyncResetThrows

SettleSpec == Init /\ [][SettleNext]_vars

(* The same with Miner.mineBlock running beside the sync. *)
MinerNext ==
  \/ MineStart
  \/ \E inTurn, later \in BOOLEAN : MineWake(inTurn, later)
  \/ MineJitterOver
  \/ MineProcessed

NodeNext == Next \/ MinerNext

NodeSpec == Init /\ [][NodeNext]_vars

(* The partition loop on drawn inputs. *)
PartitionInit == PartInit /\ SyncOff /\ WorkerOff /\ ExtraOff

PartitionNext == InsertTasks

PartitionSpec == PartitionInit /\ [][PartitionNext]_vars

(* The worker under its three callers. *)
WorkerSpecInit == WorkerInit /\ SyncOff /\ PartOff /\ ExtraOff

WorkerNext ==
  \/ \E s \in Senders : NewHead(s)
  \/ \E s \in Senders : \E kind \in Kinds : Submit(s, kind)
  \/ TakeBlock
  \/ TakeTxs
  \/ Process
  \/ \E t \in Threads : NewBlockRevert(t)
  \/ \E t \in Threads : NewBlockReset(t)
  \/ \E t \in Threads : NewBlockVM(t)
  \/ \E t \in Threads : NewBlockCommit(t)
  \/ \E t \in Threads : AddTxsCommit(t)
  \/ \E t \in Threads : RunTx(t)
  \/ \E t \in Threads : Settle(t)
  \/ \E t \in Threads : Dropped(t)
  \/ \E t \in Threads : Included(t)

WorkerSpec == WorkerSpecInit /\ [][WorkerNext]_vars

(***************************************************************************)
(* One call of Worker.commit on pending maps of several transactions:      *)
(* Worker.addTxs, lines 112-123, is called by addPendingTxsLoop with a     *)
(* pending map of transactions that the pool holds, on the candidate that  *)
(* a newBlock has left (no transaction, no gas, the state checkpointed).   *)
(* The other callers of the worker get as far as the revert of line 93:    *)
(* newBlockLoop is about to call newBlock for the head (node.ts line 283)  *)
(* and the timer of the worker may call process(), lines 163-165.          *)
(***************************************************************************)
Committer == "addPendingTxsLoop"

CommitInit ==
  /\ blocks = <<[s \in Senders |-> 0]>>
  /\ pool \in PendingMaps
  /\ newBlockQueue = <<>>
  /\ addPendingTxsQueue = <<>>
  /\ wvm = Checkpoint(FreshVM([s \in Senders |-> 0]))
  /\ txs = <<>>
  /\ gasUsed = 0
  /\ header = [number |-> 2, parent |-> 1]
  /\ th = [[t \in Threads |-> IdleThread] EXCEPT ![Committer].pc = "addTxs",
                                                 ![Committer].map = pool,
                                                 !["newBlockLoop"].pc = "newBlock",
                                                 !["newBlockLoop"].block = 1]
  /\ submitted = 0
  /\ ticks = 0

CommitSpecInit == CommitInit /\ SyncOff /\ PartOff /\ ExtraOff

(* The steps of the caller of addTxs. *)
CommitStep ==
  \/ AddTxsCommit(Committer)
  \/ RunTx(Committer)
  \/ Settle(Committer)
  \/ Dropped(Committer)
  \/ Included(Committer)

CommitNext ==
  \/ Process
  \/ \E t \in Threads \ {Committer} : NewBlockRevert(t)
  \/ AddTxsCommit(Committer)
  \/ RunTx(Committer)
  \/ Settle(Committer)
  \/ Dropped(Committer)
  \/ Included(Committer)

CommitSpec == CommitSpecInit /\ [][CommitNext]_vars

(***************************************************************************)
(* The same with the scheduling of the event loop: a caller whose awaited  *)
(* call has settled is resumed.                                            *)
(***************************************************************************)
CommitFairSpec == CommitSpec /\ WF_vars(CommitStep)

(* The worker under the node's two loops, with callers of getPendingBlock. *)
PendingInit == WorkerInit /\ SyncOff /\ PartOff /\ ExtraOff

PendingNext ==
  \/ \E s \in Senders : NewHead(s)
  \/ \E s \in Senders : \E kind \in Kinds : Submit(s, kind)
  \/ TakeBlock
  \/ TakeTxs
  \/ \E t \in Threads : NewBlockRevert(t)
  \/ \E t \in Threads : NewBlockReset(t)
  \/ \E t \in Threads : NewBlockVM(t)
  \/ \E t \in Threads : NewBlockCommit(t)
  \/ \E t \in Threads : AddTxsCommit(t)
  \/ \E t \in Threads : RunTx(t)
  \/ \E t \in Threads : Settle(t)
  \/ \E t \in Threads : Dropped(t)
  \/ \E t \in Threads : Included(t)
  \/ \E given \in BOOLEAN : \E b \in DOMAIN blocks : GetPendingBlock(given, b)
  \/ PendingBlockReturn

PendingSpec == PendingInit /\ [][PendingNext]_vars

(* The network manager with its dial loop, inbound streams, bans and the clock. *)
NetSpecInit == SyncOff /\ PartOff /\ WorkerOff /\ ExtraOff

NetNext ==
  \/ NetTick
  \/ \E p \in NetPeers : \E maxAge \in 1..MaxAge : Ban(p, maxAge)
  \/ \E p \in NetPeers : QueryIsBanned(p)
  \/ \E p \in NetPeers : PeerConnect(p)
  \/ \E p \in NetPeers : PeerDisconnect(p)
  \/ \E p \in NetPeers : Inbound(p)
  \/ \E p \in NetPeers : \E ok \in BOOLEAN : InstallEnd(p, ok)
  \/ \E p \in NetPeers : DialLoopWake(p)
  \/ DialLoopIdle
  \/ \E ok \in BOOLEAN : DialEnd(ok)

NetSpec == NetSpecInit /\ [][NetNext]_vars

(* Inserts into the journal, then one load of it. *)
JournalSpecInit == SyncOff /\ PartOff /\ WorkerOff /\ ExtraOff

JournalNext ==
  \/ \E tx \in JournalTxs : JournalInsert(tx)
  \/ JournalLoad
  \/ \E n \in 1..MaxChunk : JournalData(n)
  \/ JournalEnd

JournalSpec == JournalSpecInit /\ [][JournalNext]_vars

(* Inserts into the journal beside one rotate() call. *)
RotateSpecInit == SyncOff /\ PartOff /\ WorkerOff /\ ExtraOff

RotateNext ==
  \/ \E tx \in JournalTxs : JournalInsert(tx)
  \/ \E all \in RotateMaps : RotateStart(all)
  \/ RotateClosed
  \/ \E n \in 0..MaxRotate : RotateWritten(n)
  \/ RotateEnd

RotateSpec == RotateSpecInit /\ [][RotateNext]_vars

(* Callers of Node.newBlock and Node.addPendingTxs, and the two loops. *)
LoopSpecInit == SyncOff /\ PartOff /\ WorkerOff /\ ExtraOff

LoopNext ==
  \/ NodeNewBlock
  \/ \E n \in 0..MaxTxs : NodeAddPendingTxs(n)
  \/ \E announceThrows \in BOOLEAN : NewBlockLoopTake(announceThrows)
  \/ \E ok \in BOOLEAN : PoolNewBlockEnd(ok)
  \/ WorkerNewBlockEnd
  \/ AddPendingTxsLoopTake
  \/ \E n \in 0..MaxTxs : \E results \in [1..n -> BOOLEAN] :
       \E outcome \in {"resolved", "announced", "announceThrows"} :
         PoolAddTxsEnd(results, outcome)
  \/ PoolAddTxsThrows
  \/ \E ok \in BOOLEAN : WorkerAddTxsEnd(ok)

LoopSpec == LoopSpecInit /\ [][LoopNext]_vars

(* The background loops and the two abort signals. *)
BgSpecInit == SyncOff /\ PartOff /\ WorkerOff /\ ExtraOff

BgNext ==
  \/ NodeAbort
  \/ NetAbort
  \/ SyncLoopTurn
  \/ \E throws \in BOOLEAN : SyncLoopSyncEnd(throws)
  \/ \E l \in QueueLoops : QueueLoopTake(l)
  \/ \E l \in QueueLoops : QueueLoopEnd(l)
  \/ \E found \in BOOLEAN : DialLoopTurn(found)
  \/ \E success \in BOOLEAN : DialLoopDialEnd(success)
  \/ \E throws, found \in BOOLEAN : DialLoopInstallEnd(throws, found)
  \/ \E stale \in BOOLEAN : TimeoutLoopWake(stale)
  \/ \E throws \in BOOLEAN : TimeoutLoopRemoved(throws)
  \/ LoopProcess
  \/ \E throws \in BOOLEAN : MinerProcessEnd(throws)

BgSpec == BgSpecInit /\ [][BgNext]_vars

(***************************************************************************)
(* The timers of the event loop fire: a loop whose sleep or interval is    *)
(* over is resumed.                                                        *)
(***************************************************************************)
BgFairSpec == BgSpec /\ WF_vars(SyncLoopTurn) /\ WF_vars(LoopProcess)

(***************************************************************************)
(* Properties of the synchronizer.                                         *)
(***************************************************************************)
Returned == syncPc \in {"returned", "notified"}

(***************************************************************************)
(* C1: the batches are handed to node.processBlocks in increasing task     *)
(* order, each exactly once and none skipped: the k-th batch handed over   *)
(* is the batch of task k, and a consumer that ended without an error was  *)
(* handed every result the download queue emitted.                         *)
(***************************************************************************)
C1_BatchesInOrderOnce ==
  /\ \A k \in DOMAIN handed : handed[k] = k
  /\ (consPc = "done" /\ ~consErr) => Len(handed) = emitted

(***************************************************************************)
(* C2: at most one Node.processBlock is in progress: the consumer is not   *)
(* inside processBlocks while Miner.mineBlock is inside processBlock.      *)
(***************************************************************************)
C2_ProcessBlockSerialized == ~(consPc = "apply" /\ mPc = "processing")

(***************************************************************************)
(* C3: sync() returns true only if the producer scheduled and downloaded   *)
(* every task without error, the consumer was handed every batch and       *)
(* applied it without error, and the latest height read at the return is   *)
(* the bestHeight of this sync.                                            *)
(***************************************************************************)
C3_SuccessOnlyIfCaughtUp ==
  (Returned /\ syncRet) =>
    /\ prodPc = "done" /\ ~prodErr
    /\ \A i \in DOMAIN tState : tState[i] = "done"
    /\ consPc = "done" /\ ~consErr
    /\ Len(handed) = Len(tasks)
    /\ retHeight = bestHeight

(***************************************************************************)
(* C4: a sync that finds no peer above the local height inserts no task,   *)
(* applies no block and returns true.                                      *)
(***************************************************************************)
C4_NoOpSyncSucceeds ==
  (Returned /\ bestHeight = latestHeight) =>
    /\ tasks = <<>>
    /\ handed = <<>>
    /\ syncRet = TRUE

(***************************************************************************)
(* C5: for B > L the loop inserts ceil((B-L)/count) tasks, task k starting *)
(* at L+1+k*count with min(count, B-L-k*count) blocks; every height of     *)
(* L+1..B lies in exactly one task and no task leaves that range; L=10,    *)
(* B=20, count=5 gives {start:11,count:5} and {start:16,count:5}.          *)
(***************************************************************************)
C5_TaskPartition ==
  (pPc = "out" /\ pBest > pLatest) =>
    LET span == pBest - pLatest
        n == Len(pTasks)
        InTask(i, h) == pTasks[i].start <= h /\ h < pTasks[i].start + pTasks[i].count
    IN /\ n = (span + pCount - 1) \div pCount
       /\ \A k \in 0..(n - 1) :
            /\ pTasks[k + 1].start = pLatest + 1 + k * pCount
            /\ pTasks[k + 1].count = Min(pCount, span - k * pCount)
       /\ \A h \in (pLatest + 1)..pBest : Cardinality({i \in 1..n : InTask(i, h)}) = 1
       /\ \A i \in 1..n : \A h \in 0..(MaxPartBest + MaxPartCount) :
            InTask(i, h) => (pLatest < h /\ h <= pBest)
       /\ (pLatest = 10 /\ pBest = 20 /\ pCount = 5) =>
            pTasks = <<[start |-> 11, count |-> 5], [start |-> 16, count |-> 5]>>

C5_Witness ==
  /\ pPc = "out"
  /\ pLatest = 10 /\ pBest = 20 /\ pCount = 5
  /\ Len(pTasks) = 2

(***************************************************************************)
(* C6: a sync() call made while isSyncing is rejected and changes nothing: *)
(* the step that rejects it leaves the idle-peer queue, the download queue *)
(* with its tasks, and every field of the running sync as they are, with   *)
(* isSyncing still true; and at most one sync is in progress at any time.  *)
(***************************************************************************)
C6_RejectedSyncChangesNothing ==
  /\ [](active <= 1)
  /\ [][rejected' # rejected =>
          /\ isSyncing /\ isSyncing'
          /\ UNCHANGED <<syncVars, queueVars, chanVars, peerVars, chainVars>>]_vars

C6_Witness ==
  /\ rejected > 0
  /\ isSyncing
  /\ idleArr # <<>>
  /\ tasks # <<>>

C8_AbortedSyncSettles ==
  /\ abortCalled => \A i \in DOMAIN tState : tState[i] # "waitPeer"
  /\ (abortCalled /\ syncPc = "running") => ENABLED SyncProgress

(***************************************************************************)
(* Properties of the worker.                                               *)
(***************************************************************************)

(***************************************************************************)
(* C9: when runTx threw for a transaction, the step that handles the       *)
(* failure leaves the state equal to the one saved by the transaction's    *)
(* checkpoint, and changes neither txs nor gasUsed.                        *)
(***************************************************************************)
C9_FailedTxLeavesStateIntact ==
  [][\A t \in Threads :
       (th[t].pc = "settle" /\ th[t].res = "throw" /\ th'[t].pc # "settle") =>
          /\ wvm'.state = th[t].pre
          /\ txs' = txs
          /\ gasUsed' = gasUsed]_vars

(***************************************************************************)
(* C10: for every sender, its transactions in the candidate block have     *)
(* ascending nonces without a gap, beginning with the nonce the sender's   *)
(* account has in the state the candidate is built on.                     *)
(***************************************************************************)
C10_PerSenderNonceOrder ==
  \A s \in Senders :
    LET mine == SelectSeq(txs, LAMBDA tx : tx.sender = s)
    IN \A k \in DOMAIN mine : mine[k].nonce = blocks[header.parent][s] + (k - 1)

(***************************************************************************)
(* C11: getPendingBlock called without arguments, or with a number and a   *)
(* hash that match the candidate's header, copies the worker's txs and     *)
(* header as they are at the call, and returns a block with exactly those  *)
(* transactions in that order whose transactionsTrie is the root over      *)
(* them; on a mismatch it returns a block without transactions on the      *)
(* parent (hash, number).                                                  *)
(***************************************************************************)
C11_PendingBlockMatchesCandidate ==
  /\ [](pend.pc = "done" =>
          IF pend.matched
          THEN /\ pend.result.transactions = pend.txs
               /\ pend.result.transactionsTrie = CalculateTransactionTrie(pend.txs)
               /\ pend.result.number = pend.header.number
               /\ pend.result.parent = pend.header.parent
          ELSE /\ pend.result.transactions = <<>>
               /\ pend.result.transactionsTrie = emptyTxTrie
               /\ pend.result.number = pend.number + 1
               /\ pend.result.parent = pend.hash)
  /\ [][(pend.pc \in {"idle", "done"} /\ pend'.pc \notin {"idle", "done"}) =>
          /\ pend'.matched = (~pend'.given \/ (pend'.number + 1 = header.number
                                           /\ pend'.hash = header.parent))
          /\ pend'.matched => (pend'.txs = txs /\ pend'.header = header)]_vars

C11_Witness ==
  /\ pend.pc = "done"
  /\ pend.matched /\ pend.given
  /\ pend.result.transactions # <<>>
  /\ txs # pend.txs

(***************************************************************************)
(* C12: the candidate is rebuilt on every head change: every transaction   *)
(* in txs executes, in the order of txs, on the state of the block that    *)
(* header.parent names (its nonce is the nonce its sender has there plus   *)
(* the sender's earlier transactions in txs), and gasUsed is the gas of    *)
(* exactly the transactions in txs.                                        *)
(***************************************************************************)
C12_CandidateBuiltOnItsParent ==
  /\ \A i \in DOMAIN txs :
       /\ txs[i].kind # "bad"
       /\ txs[i].nonce = blocks[header.parent][txs[i].sender]
                           + Cardinality({j \in 1..(i - 1) : txs[j].sender = txs[i].sender})
  /\ gasUsed = Len(txs) + Cardinality({i \in DOMAIN txs : txs[i].kind = "big"})

(***************************************************************************)
(* Properties of the network manager.                                      *)
(***************************************************************************)

(***************************************************************************)
(* C13: after ban(p, d) at time t, isBanned(p) is true at every time       *)
(* before t + d whatever bans follow; and an isBanned call made once the   *)
(* expiry of p has elapsed returns false and removes the entry of p.       *)
(***************************************************************************)
C13_BanNeverShortened ==
  /\ [](\A p \in NetPeers : now < promised[p] => IsBanned(nBanned, p, now))
  /\ [][lastQuery'.n # lastQuery.n =>
          LET p == lastQuery'.peer
          IN (nBanned[p] = 0 \/ nBanned[p] <= now) =>
               (lastQuery'.result = FALSE /\ nBanned'[p] = 0)]_vars

(***************************************************************************)
(* C14: no peer with an unexpired ban is installed.                        *)
(***************************************************************************)
C14_BannedPeerNotInstalled ==
  \A p \in nInstalled : ~IsBanned(nBanned, p, now)

(***************************************************************************)
(* C15: the number of installed peers is at most maxPeers.                 *)
(***************************************************************************)
C15_InstalledWithinMaxPeers ==
  Cardinality(nInstalled) <= maxPeers

(***************************************************************************)
(* C16: once load has ended, the batches passed to the add callback, put   *)
(* end to end, are the inserted transactions in insertion order, however   *)
(* the stream cut the file into chunks.                                    *)
(***************************************************************************)
C16_JournalRoundTrip ==
  jPc = "done" => Flatten(jAdded) = jLog

(***************************************************************************)
(* C17: every batch load passes to the add callback holds at most          *)
(* BatchLimit (1024) transactions.                                         *)
(***************************************************************************)
C17_BatchWithinLimit ==
  \A k \in DOMAIN jAdded : Len(jAdded[k]) <= BatchLimit

C19_PoolCallsNotInterleaved ==
  ~(nbLoop.pc = "poolNewBlock" /\ txLoop.pc = "poolAddTxs")

C22_FailedRequestBans ==
  /\ [](\A p \in Peers :
          /\ banned[p].err = "timeout" => banned[p].maxAge = 300000
          /\ banned[p].err = "error" => banned[p].maxAge = 60000)
  /\ [][\A i \in DOMAIN tState :
          (/\ tState[i] = "request"
           /\ i \in DOMAIN tState'
           /\ tState'[i] # "done"
           /\ \/ tState'[i] # "request"
              \/ tPeer'[i] # tPeer[i]
              \/ banned'[tPeer[i]] # banned[tPeer[i]])
          => /\ banned'[tPeer[i]].err \in {"timeout", "error"}
             /\ tPeer[i] \notin installed'
             /\ emitted' = emitted
             /\ resultArr' = resultArr]_vars

C22_Witness ==
  /\ \E p \in Peers : banned[p].err = "timeout"
  /\ \E p \in Peers : banned[p].err = "error"
  /\ emitted < Len(tasks)

(***************************************************************************)
(* C23: a peer whose idle flag is false is held by a download task that    *)
(* has not settled: a settled download leaves no peer marked busy.         *)
(***************************************************************************)
C23_SettledDownloadFreesPeer ==
  \A p \in Peers :
    ~peerIdle[p] => \E i \in DOMAIN tState : tState[i] = "request" /\ tPeer[i] = p

C23_Witness ==
  /\ \E i \in DOMAIN tState : tState[i] = "done" /\ peerIdle[tPeer[i]]
  /\ \E p \in Peers : banned[p].err # "none" /\ peerIdle[p]
  /\ \E p \in Peers : ~peerIdle[p]

C21_RetryOnAnotherPeer ==
  [][\A i \in DOMAIN tState :
       (/\ tState[i] = "request"
        /\ i \in DOMAIN tState'
        /\ banned'[tPeer[i]] # banned[tPeer[i]]
        /\ \E p \in installed' : /\ banned'[p].err = "none"
                                 /\ peerIdle[p]
                                 /\ peerHeight[p] >= bestHeight)
       => ~(tState'[i] = "request" /\ tPeer'[i] = tPeer[i])]_vars

(***************************************************************************)
(* Properties of Worker.commit.                                            *)
(***************************************************************************)
InCommit(t) == th[t].pc \in {"runTx", "settle", "popFail", "popGas", "push"}

IsSuffix(a, b) == Len(a) <= Len(b) /\ a = SubSeq(b, Len(b) - Len(a) + 1, Len(b))

(***************************************************************************)
(* C25: when runTx threw for the head transaction of sender S, the step    *)
(* that follows the revert leaves no transaction of S in the pending map   *)
(* and leaves the transactions of every other sender in it; the            *)
(* transaction that commit executes is always the peek() of its map, and   *)
(* while the loop runs the map of a sender only loses transactions from    *)
(* its front, so no transaction of S is executed or included later in the  *)
(* round.                                                                  *)
(***************************************************************************)
C25_FailedSenderSkipped ==
  /\ [](\A t \in Threads : InCommit(t) => th[t].tx = Peek(th[t].map))
  /\ [][\A t \in Threads :
          /\ (th[t].pc = "popFail" /\ th'[t].pc # "popFail") =>
                /\ th'[t].map[th[t].tx.sender] = <<>>
                /\ \A s \in Senders \ {th[t].tx.sender} : th'[t].map[s] = th[t].map[s]
                /\ txs' = txs
          /\ (InCommit(t) /\ th'[t].pc \in {"runTx", "settle", "popFail", "popGas", "push"}) =>
                \A s \in Senders : IsSuffix(th'[t].map[s], th[t].map[s])]_vars

C25_Witness ==
  /\ Len(pool["A"]) = 2
  /\ pool["A"][1].kind = "bad"
  /\ th[Committer].pc = "runTx"
  /\ th[Committer].map["A"] = <<>>
  /\ th[Committer].tx = pool["B"][1]
  /\ txs = <<>>

(***************************************************************************)
(* C26: when a transaction of sender S executed but its gas does not fit   *)
(* under the gas limit, the step that follows the revert removes just that *)
(* transaction from the pending map: the later transactions of S and the   *)
(* transactions of every other sender stay in the map.                     *)
(***************************************************************************)
C26_GasLimitDropsOneTx ==
  [][\A t \in Threads :
       (th[t].pc = "popGas" /\ th'[t].pc # "popGas") =>
          \A s \in Senders :
             th'[t].map[s] = IF s = th[t].tx.sender THEN Tail(th[t].map[s]) ELSE th[t].map[s]]_vars

(***************************************************************************)
(* C27: gasUsed is the sum of the gas of the transactions in txs and is    *)
(* never above the gas limit of the header; a step that includes a         *)
(* transaction appends it at the end of txs and adds exactly its gas.      *)
(***************************************************************************)
RECURSIVE SumGas(_)
SumGas(ts) == IF ts = <<>> THEN 0 ELSE TxGas(Head(ts)) + SumGas(Tail(ts))

C27_GasUsedIsSumWithinLimit ==
  /\ [](gasUsed = SumGas(txs) /\ gasUsed <= GasLimit)
  /\ [][\A t \in Threads :
          (th[t].pc = "push" /\ th'[t].pc # "push") =>
             /\ txs' = Append(txs, th[t].tx)
             /\ gasUsed' = gasUsed + TxGas(th[t].tx)]_vars

(***************************************************************************)
(* C28: at most one caller is inside the loop of commit at any time, and   *)
(* between the checkpoint of a transaction and its commit or revert no     *)
(* other caller changes the state manager (no checkpoint, runTx, commit or *)
(* revert of another loop, no revert or new vm of _newBlock).              *)
(***************************************************************************)
C28_CommitNotReentrant ==
  /\ [](Cardinality({t \in Threads : InCommit(t)}) <= 1)
  /\ [][\A t \in Threads :
          (th[t].pc \in {"runTx", "settle"} /\ th'[t] = th[t]) => wvm' = wvm]_vars

(***************************************************************************)
(* C29: commit terminates: a caller that has entered commit returns; the   *)
(* step that ends an iteration (after the push, after the pop, or when a   *)
(* call of the state manager threw) leaves fewer transactions in the       *)
(* pending map than the iteration began with; and the loop goes on exactly *)
(* while peek() returns a transaction.                                     *)
(***************************************************************************)
MapSize(m) == Len(m["A"]) + Len(m["B"])

Entered(t) == th[t].pc = "addTxs" \/ InCommit(t)

C31_InstalledConnectedDisjoint == nInstalled \cap nConnected = {}

BodyOf(l) ==
  IF l = "syncLoop" THEN "sync"
  ELSE IF l = "dialLoop" THEN "install"
  ELSE IF l = "timeoutLoop" THEN "remove"
  ELSE IF l = "miner" THEN "mine" ELSE "body"

C34_NothingStartsAfterAbort ==
  [][(isAborted /\ netStopped) =>
       \A l \in BgLoops :
         bg'[l].pc # bg[l].pc => bg'[l].pc \notin {"dial", "install", "remove", "sync"}]_vars

(***************************************************************************)
(* Properties of Jonunal.rotate.                                           *)
(***************************************************************************)
(* The file holds the serialisation of tx followed by the separator. *)
Contains(file, tx) ==
  \E i \in 1..Len(file) :
    /\ i + Len(tx) + 1 <= Len(file)
    /\ SubSeq(file, i, i + Len(tx) + 1) = tx \o bufferSplit

(***************************************************************************)
(* C35: rotate is all-or-nothing.  Of the steps of a rotate() call only    *)
(* the last changes the journal file, and only when every write succeeded: *)
(* the file then holds exactly the transactions of the map, each followed  *)
(* by the separator; after a failed write no rename is made and the call   *)
(* leaves the file as it is.                                               *)
(***************************************************************************)
C35_RotateAllOrNothing ==
  [][rot'.pc # rot.pc =>
       IF rot.pc = "ending" /\ ~rot.failed
       THEN jFile' = Serialise(rot.all)
       ELSE jFile' = jFile]_vars

(* A journal of one transaction was replaced by the one of the map. *)
C35_Witness ==
  /\ rot.pc = "done"
  /\ ~rot.failed
  /\ jLog = << <<1>> >>
  /\ rot.inserted = {}
  /\ rot.all = << <<2>>, <<3, 13, 10, 4>> >>
  /\ jFile = <<2, 13, 10, 3, 13, 10, 4, 13, 10>>

(***************************************************************************)
(* C40: a transaction passed to insert() while a rotate() is in progress   *)
(* is in the journal file once both have completed.                        *)
(***************************************************************************)
C40_InsertDuringRotateKept ==
  rot.pc = "done" => \A tx \in rot.inserted : Contains(jFile, tx)

(***************************************************************************)
(* C36: once the FullSynchronizer.sync call that set isSyncing has         *)
(* settled, by returning or by throwing, isSyncing is false again.         *)
(***************************************************************************)
C36_SettledSyncClearsFlag ==
  syncPc \in {"returned", "notified", "thrown"} => ~isSyncing

(***************************************************************************)
(* C37: every block mineBlock passes to node.processBlock is built on the  *)
(* chain's latest block at the moment processBlock is called: in the step  *)
(* that calls it, in turn or not, the head captured at line 113 (the       *)
(* parent of the block) is the head of the chain.                          *)
(***************************************************************************)
C37_MinedOnLatestHead ==
  [][(mPc # "processing" /\ mPc' = "processing") => mLast' = head']_vars

(***************************************************************************)
(* C38: checkpoints are balanced in Worker.commit: the checkpoint an       *)
(* iteration opens is closed by exactly one commit() or revert() of that   *)
(* iteration, so the step that settles a transaction takes one level off   *)
(* the checkpoint stack, and the depth at the end of the iteration is the  *)
(* depth at its beginning.                                                 *)
(***************************************************************************)
C38_CheckpointsBalanced ==
  [][\A t \in Threads :
       (th[t].pc = "settle" /\ th'[t] # th[t]) =>
         Len(wvm'.stack) = Len(wvm.stack) - 1]_vars

(***************************************************************************)
(* C39: while a synchronization is in progress the loops of the Miner and  *)
(* the Worker are stopped: no step taken while the sync runs has mineBlock *)
(* put a block on the chain.                                               *)
(***************************************************************************)
C39_NoBlockMinedDuringSync ==
  [][isSyncing => mined' = mined]_vars

====
